---- MODULE Spec2Model ----
(***************************************************************************)
(* Model of the yanff flow package (package flow, src/unnamed/part_001):   *)
(* the flow functions generate, handle, separate, split and partition,     *)
(* the safeEnqueue policy with the stop ring and direct stop, and the      *)
(* scheduler's Dropped counter.                                            *)
(*                                                                         *)
(* One behaviour runs one pipeline                                         *)
(*     generateOne -> ring 2 -> stage -> rings 3.. -> send                 *)
(* where the stage is a handler, a separator, a splitter or a partitioner, *)
(* and the stop ring (ring 1) is drained by the scheduler's stop routine.  *)
(* Buffer handles (mbufs) are the numbers 1..NumBufs, 0 is the nil handle. *)
(* Go slices are functions on 0..len-1, rings are sequences.               *)
(*                                                                         *)
(* SpecBuild is graph construction: the Set functions, merge, checkFlow,   *)
(* the ports and checkSystem, up to SystemStart.  SpecReplica is the       *)
(* select loop of the replicas of one clonable flow function with its      *)
(* stop, tick and report channels, and the scheduler on their other side.  *)
(*                                                                         *)
(* SpecInit is SystemInit setting the package variables from its Config.   *)
(* SpecCheck evaluates the clone predicates of the flow functions on every *)
(* ring occupancy and speed.  SpecSched is the scheduler doubling the      *)
(* replicas of a fast generator, each allocating from its mempool.         *)
(* SpecFile is a generator or a PCAP reader feeding a PCAP writer, with    *)
(* the bytes of the packets and of the files.  SpecOrder is a handler      *)
(* whose replicas the scheduler doubles between its two rings.             *)
(* SpecPerf is a fast generator filling whole bursts at a target speed.    *)
(* SpecRetire is a handler, separator or splitter replica taking its       *)
(* stop and tick between two bursts.  SpecCksum is one call of             *)
(* reduceChecksum of package packet (src/unnamed/part_002).                *)
(***************************************************************************)
EXTENDS Integers, Sequences, FiniteSets, TLC

\* ------------------------------------------------------------------ bounds
NumBufs == 5            \* mbufs in the mempool
MaxGenerated == 5       \* packets generateOne produces in one behaviour
MaxNM == 2              \* largest N and M given to SetPartitioner
MaxFlowNumber == 2      \* largest flowNumber given to SetSplitter
burstSize == 2          \* Config.BurstSize
sizeMultiplier == 1     \* Config.RingSize

Handles == 1 .. NumBufs

Min(a, b) == IF a < b THEN a ELSE b
Max(a, b) == IF a > b THEN a ELSE b

\* ------------------------------------------------------------------- rings
RingSize == burstSize * sizeMultiplier
StopRing == 1
InRing == 2
OutRing(j) == 3 + j
NumOuts == Max(2, MaxFlowNumber)
Rings == 1 .. (2 + NumOuts)

\* a ring that accepts whatever it is given
EnqueueBurstUnbounded(q, number) == number
\* low.Queue.EnqueueBurst: the number of handles the ring accepts
EnqueueBurst(q, number) == Min(number, RingSize - Len(q))
\* low.Queue.DequeueBurst: the number of handles the ring hands out
DequeueBurst(q, number) == Min(number, Len(q))

\* ---------------------------------------------------------------- slices
Array(len) == [i \in 0 .. (len - 1) |-> 0]
\* data[lo:hi]
Slice(data, lo, hi) == [k \in 1 .. (hi - lo) |-> data[lo + k - 1]]
\* the array after a dequeue wrote s into its first Len(s) slots
Fill(a, s) == [i \in DOMAIN a |-> IF i < Len(s) THEN s[i + 1] ELSE a[i]]
Occurrences(s, h) == Cardinality({k \in DOMAIN s : s[k] = h})

Workers == {"generator", "stage"}
Kinds == {"handler", "separator", "splitter", "partitioner"}

VARIABLES
    rings,                \* ring id -> sequence of handles
    pool,                 \* mempool free list: handle -> times it is free
    Dropped,              \* schedState.Dropped
    kind, vector, N, M, flowNumber,     \* the stage and its parameters
    pc, calls, done, done2, tmp,        \* per worker: position in safeEnqueue
    bufsIn,               \* stage input burst (bufs, bufsIn, InputMbufs)
    bufsTrue, bufsFalse, ttt,           \* separate
    bufsFirst, bufsSecond, currentPacketNumber, sw,     \* partition
    OutputMbufs, countOfPackets,        \* split
    generated,            \* packets generateOne has allocated
    deq, acc, shed, refused,            \* history: counts per worker
    lastBurst, lastRes, handed,         \* history: the stage's last burst
    placed                \* history: where a worker's last call put its handles

stageVars == <<bufsIn, bufsTrue, bufsFalse, ttt, bufsFirst, bufsSecond,
               currentPacketNumber, sw, OutputMbufs, countOfPackets>>
histVars == <<lastBurst, lastRes, handed>>
Appended(q, qNew) == SubSeq(qNew, Len(q) + 1, Len(qNew))
confVars == <<kind, vector, N, M, flowNumber>>
runVars == <<rings, pool, Dropped, confVars, pc, calls, done, done2, tmp,
             stageVars, generated, deq, acc, shed, refused, histVars, placed>>

\* the state of graph construction (package variables of flow and the
\* scheduler's lists of flow functions)
VARIABLES
    phase,                \* "construct", "running", or "exit" after LogError
    flows,                \* the Flow objects made so far: Flow.current, 0 is nil
    ringName,             \* the number the next ring gets
    ffCount,              \* flow functions made so far
    openFlowsNumber,
    UnClonable, Clonable, \* schedState.UnClonable, schedState.Clonable
    warnings,             \* calls of common.LogWarning
    createdPorts,         \* port number -> port descriptor
    built,                \* history: builder calls made so far
    lastCall,             \* history: the last builder call and how it ended
    merged                \* history: the rings merge was called to replace

graphVars == <<phase, flows, ringName, ffCount, openFlowsNumber, UnClonable,
               Clonable, warnings>>
buildVars == <<graphVars, createdPorts, built, lastCall, merged>>

\* the replicas of one clonable flow function and the scheduler's side of
\* their channels
VARIABLES
    rkind,                \* the flow function: "generatePerf" or "handle"
    rpc,                  \* per replica: "select", "report", "sleep", "done"
    pause,                \* per replica: the pause value
    currentSpeed,         \* per replica: packets counted since the last tick
    stopper,              \* per replica: the stop channel, a sequence
    report,               \* the report channel of the flow function
    schedRunning,         \* the scheduler's loop has not ended
    processed,            \* history: packets a replica has processed
    published             \* history: sum of the values a replica has reported

replVars == <<rkind, rpc, pause, currentSpeed, stopper, report, schedRunning,
              processed, published>>
\* the package variables SystemInit sets from its Config
VARIABLES
    config,               \* sizeMultiplier and burstSize, 0 before SystemInit
    maxPacketsToClone,    \* the ring occupancy above which a stage wants a clone
    stopRingSize          \* the size SystemInit gave low.CreateQueue, 0 before

initVars == <<config, maxPacketsToClone, stopRingSize>>

\* the scheduler's view of one clonable flow function
VARIABLES
    gpTargetSpeed,        \* gp.targetSpeed of the generator
    lastCheck             \* history: the last evaluation of the clone predicate

schedVars == <<gpTargetSpeed, lastCheck>>

\* packet contents and the PCAP files of the reader and the writer
VARIABLES
    mbuf,                 \* handle -> the packet bytes in the buffer
    inFile,               \* the reader's file: its records after the global header
    rpRepcount,           \* rp.repcount
    count,                \* read: passes over the file that have ended
    fpos,                 \* read: the record the file offset is at
    readHanded,           \* history: the packets read passed to safeEnqueue
    outFile,              \* the writer's file: the items written so far
    wpc,                  \* write: "start" before the file is made, then "loop"
    written,              \* history: the packets write dequeued
    now,                  \* the wall clock in nanoseconds since the epoch
    writtenAt             \* history: the clock at every record header written

fileVars == <<mbuf, inFile, rpRepcount, count, fpos, readHanded, outFile, wpc,
              written, now, writtenAt>>

\* the replicas of a handler on the rings of the pipeline
VARIABLES
    cloneBufs             \* replica -> its burst array bufs

cloneVars == <<cloneBufs>>

\* one call of reduceChecksum (package packet)
VARIABLES
    sum,                  \* the uint32 sum as its two 16-bit halves
    cpc,                  \* "idle", "loop" or "return"
    argument,             \* history: the value the call was given
    result,               \* the uint16 the call returned
    folds                 \* history: iterations of the loop so far

cksumVars == <<sum, cpc, argument, result, folds>>
extVars == <<initVars, schedVars, fileVars, cloneVars, cksumVars>>
vars == <<runVars, buildVars, replVars, extVars>>

\* a pending call safeEnqueue(place, data, number); index is the split output
Call(place, data, number, index) ==
    [place |-> place, data |-> data, number |-> number, index |-> index]

\* ------------------------------------------------------------ safeEnqueue
\* a slice that forgets the offset done: data[0:number-done]
StopSliceNoOffset(data, d, number) == Slice(data, 0, number - d)
\* data[done:number], the handles offered to the stop ring
StopSlice(data, d, number) == Slice(data, d, number)
\* a slice that forgets what the stop ring took: data[done:number]
DirectSliceNoDone2(data, d, d2, number) == Slice(data, d, number)
\* data[done+done2:number], the handles given to low.DirectStop
DirectSlice(data, d, d2, number) == Slice(data, d + d2, number)

\* low.AllocateMbufs: h is the buffer the mempool hands out next.  Which of
\* its free buffers a pool hands out is immaterial to the flow functions;
\* this pool hands out the free buffer with the lowest number
AllocateMbufs(p, h) == p[h] > 0 /\ \A g \in Handles : p[g] > 0 => h <= g

\* low.DirectStop and the stop routine free handles to the mempool
Free(p, s) == [h \in Handles |-> p[h] + Occurrences(s, h)]

\* a return after which split keeps the count of the output it served
ReturnNoReset(t) ==
    /\ calls' = [calls EXCEPT ![t] = Tail(@)]
    /\ pc' = [pc EXCEPT ![t] = IF Len(calls[t]) > 1 THEN "enqueue" ELSE "loop"]
    /\ countOfPackets' = countOfPackets

\* return from safeEnqueue: split resets the count of the output it served
Return(t) ==
    /\ calls' = [calls EXCEPT ![t] = Tail(@)]
    /\ pc' = [pc EXCEPT ![t] = IF Len(calls[t]) > 1 THEN "enqueue" ELSE "loop"]
    /\ countOfPackets' =
         IF t = "stage" /\ kind = "splitter"
         THEN [countOfPackets EXCEPT ![Head(calls[t]).index] = 0]
         ELSE countOfPackets

unchangedStage == UNCHANGED <<bufsIn, bufsTrue, bufsFalse, ttt, bufsFirst,
                              bufsSecond, currentPacketNumber, sw, OutputMbufs>>

\* done := place.EnqueueBurst(data, number)
SafeEnqueuePlace(t) ==
    /\ UNCHANGED <<buildVars, replVars, extVars>>
    /\ pc[t] = "enqueue"
    /\ LET c == Head(calls[t])
           d == EnqueueBurst(rings[c.place], c.number)
       IN /\ rings' = [rings EXCEPT ![c.place] = @ \o Slice(c.data, 0, d)]
          /\ done' = [done EXCEPT ![t] = d]
          /\ acc' = [acc EXCEPT ![t] = @ + d]
          /\ refused' = refused + (c.number - d)
          /\ placed' = [placed EXCEPT ![t] =
                          [data |-> Slice(c.data, 0, c.number),
                           ring |-> Appended(rings[c.place], rings'[c.place]),
                           stop |-> <<>>, direct |-> <<>>, calledStop |-> FALSE,
                           calledDirect |-> FALSE]]
          /\ IF d < c.number
             THEN /\ pc' = [pc EXCEPT ![t] = "load"]
                  /\ UNCHANGED <<calls, countOfPackets>>
             ELSE Return(t)
    /\ unchangedStage
    /\ UNCHANGED <<pool, Dropped, confVars, done2, tmp, generated, deq, shed,
                   histVars>>

\* schedState.Dropped += number - uint(done): the read of the plain field
DroppedLoad(t) ==
    /\ UNCHANGED <<buildVars, replVars, extVars>>
    /\ pc[t] = "load"
    /\ tmp' = [tmp EXCEPT ![t] = Dropped]
    /\ pc' = [pc EXCEPT ![t] = "store"]
    /\ unchangedStage
    /\ UNCHANGED <<rings, pool, Dropped, confVars, calls, done, done2,
                   countOfPackets, generated, deq, acc, shed, refused,
                   histVars, placed>>

\* schedState.Dropped += number - uint(done): the write of the plain field
DroppedStore(t) ==
    /\ UNCHANGED <<buildVars, replVars, extVars>>
    /\ pc[t] = "store"
    /\ Dropped' = tmp[t] + (Head(calls[t]).number - done[t])
    /\ pc' = [pc EXCEPT ![t] = "stop"]
    /\ unchangedStage
    /\ UNCHANGED <<rings, pool, confVars, calls, done, done2, tmp,
                   countOfPackets, generated, deq, acc, shed, refused,
                   histVars, placed>>

\* done2 := schedState.StopRing.EnqueueBurst(data[done:number], number-done)
SafeEnqueueStop(t) ==
    /\ UNCHANGED <<buildVars, replVars, extVars>>
    /\ pc[t] = "stop"
    /\ LET c == Head(calls[t])
           rest == StopSlice(c.data, done[t], c.number)
           d2 == EnqueueBurst(rings[StopRing], c.number - done[t])
       IN /\ rings' = [rings EXCEPT ![StopRing] = @ \o SubSeq(rest, 1, d2)]
          /\ done2' = [done2 EXCEPT ![t] = d2]
          /\ shed' = [shed EXCEPT ![t] = @ + d2]
          /\ placed' = [placed EXCEPT ![t].stop =
                          Appended(rings[StopRing], rings'[StopRing]),
                                      ![t].calledStop = TRUE]
          /\ IF d2 < c.number - done[t]
             THEN /\ pc' = [pc EXCEPT ![t] = "direct"]
                  /\ UNCHANGED <<calls, countOfPackets>>
             ELSE Return(t)
    /\ unchangedStage
    /\ UNCHANGED <<pool, Dropped, confVars, done, tmp, generated, deq, acc,
                   refused, histVars>>

\* low.DirectStop(number-done-done2, data[done+done2:number])
SafeEnqueueDirect(t) ==
    /\ UNCHANGED <<buildVars, replVars, extVars>>
    /\ pc[t] = "direct"
    /\ LET c == Head(calls[t])
           rest == DirectSlice(c.data, done[t], done2[t], c.number)
       IN /\ pool' = Free(pool, rest)
          /\ shed' = [shed EXCEPT ![t] = @ + Len(rest)]
          /\ placed' = [placed EXCEPT ![t].direct = rest,
                                      ![t].calledDirect = TRUE]
    /\ Return(t)
    /\ unchangedStage
    /\ UNCHANGED <<rings, Dropped, confVars, done, done2, tmp, generated, deq,
                   acc, refused, histVars>>

safeEnqueue(t) ==
    \/ SafeEnqueuePlace(t)
    \/ DroppedLoad(t)
    \/ DroppedStore(t)
    \/ SafeEnqueueStop(t)
    \/ SafeEnqueueDirect(t)

\* ------------------------------------------------------------ generateOne
\* one iteration: allocate one mbuf, run the user function, safeEnqueue it
generateOne ==
    /\ UNCHANGED <<buildVars, replVars, extVars>>
    /\ pc["generator"] = "loop"
    /\ generated < MaxGenerated
    /\ \E h \in Handles :
         /\ AllocateMbufs(pool, h)
         /\ pool' = [pool EXCEPT ![h] = @ - 1]
         /\ calls' = [calls EXCEPT !["generator"] =
                         <<Call(InRing, [i \in 0 .. 0 |-> h], 1, 0)>>]
    /\ pc' = [pc EXCEPT !["generator"] = "enqueue"]
    /\ generated' = generated + 1
    /\ deq' = [deq EXCEPT !["generator"] = @ + 1]
    /\ UNCHANGED <<rings, Dropped, confVars, done, done2, tmp, stageVars,
                   acc, shed, refused, histVars, placed>>

\* ----------------------------------------------------------------- handle
\* one iteration of the default branch: dequeue a burst, run the user
\* function on every packet (scalar or vector), safeEnqueue the same array
handle ==
    /\ UNCHANGED <<buildVars, replVars, extVars>>
    /\ kind = "handler"
    /\ pc["stage"] = "loop"
    /\ LET n == DequeueBurst(rings[InRing], burstSize)
           bufs == Fill(bufsIn, SubSeq(rings[InRing], 1, n))
       IN /\ n # 0
          /\ rings' = [rings EXCEPT ![InRing] = SubSeq(@, n + 1, Len(@))]
          /\ bufsIn' = bufs
          /\ calls' = [calls EXCEPT !["stage"] =
                          <<Call(OutRing(0), bufs, n, 0)>>]
          /\ deq' = [deq EXCEPT !["stage"] = @ + n]
          /\ lastBurst' = Slice(bufs, 0, n)
          /\ lastRes' = <<>>
          /\ handed' = calls'["stage"]
    /\ pc' = [pc EXCEPT !["stage"] = "enqueue"]
    /\ UNCHANGED <<pool, Dropped, confVars, done, done2, tmp, bufsTrue,
                   bufsFalse, ttt, bufsFirst, bufsSecond, currentPacketNumber,
                   sw, OutputMbufs, countOfPackets, generated, acc, shed,
                   refused, placed>>

\* --------------------------------------------------------------- separate
\* a loop body that puts a true packet into slot i of bufsTrue
SeparateStepSlotI(st, i, b) ==
    IF b = FALSE
    THEN [st EXCEPT !.bufsFalse[st.countOfPackets] = st.bufsIn[i],
                    !.countOfPackets = @ + 1]
    ELSE [st EXCEPT !.bufsTrue[i] = st.bufsIn[i]]

\* the loop body: a packet whose result is false goes to the next free slot
\* of bufsFalse, any other to slot i-countOfPackets of bufsTrue
SeparateStep(st, i, b) ==
    IF b = FALSE
    THEN [st EXCEPT !.bufsFalse[st.countOfPackets] = st.bufsIn[i],
                    !.countOfPackets = @ + 1]
    ELSE [st EXCEPT !.bufsTrue[i - st.countOfPackets] = st.bufsIn[i]]

RECURSIVE SeparateLoop(_, _, _, _)
\* for i := from; i < to; i++ with the results r[i]
SeparateLoop(st, r, from, to) ==
    IF from >= to THEN st
    ELSE SeparateLoop(SeparateStep(st, from, r[from]), r, from + 1, to)

\* the scalar branch: n-1 packets in the prefetch loop, then the last one
SeparateScalar(st, r, n) ==
    SeparateStep(SeparateLoop(st, r, 0, n - 1), n - 1, r[n - 1])

\* the vector branch: the user function fills ttt, one loop over all n
SeparateVector(st, tt, n) == SeparateLoop(st, tt, 0, n)

\* calls that pass the whole burst length to the true output
SeparateCallsWholeBurst(st, n) ==
    (IF st.countOfPackets # 0
     THEN <<Call(OutRing(1), st.bufsFalse, st.countOfPackets, 0)>>
     ELSE <<>>)
    \o
    (IF st.countOfPackets # n
     THEN <<Call(OutRing(0), st.bufsTrue, n, 0)>>
     ELSE <<>>)

\* the two calls after the loop, the false output first
SeparateCalls(st, n) ==
    (IF st.countOfPackets # 0
     THEN <<Call(OutRing(1), st.bufsFalse, st.countOfPackets, 0)>>
     ELSE <<>>)
    \o
    (IF st.countOfPackets # n
     THEN <<Call(OutRing(0), st.bufsTrue, n - st.countOfPackets, 0)>>
     ELSE <<>>)

separate ==
    /\ UNCHANGED <<buildVars, replVars, extVars>>
    /\ kind = "separator"
    /\ pc["stage"] = "loop"
    /\ LET n == DequeueBurst(rings[InRing], burstSize)
           bufs == Fill(bufsIn, SubSeq(rings[InRing], 1, n))
       IN /\ n # 0
          /\ \E r \in [0 .. (n - 1) -> BOOLEAN] :
               LET st0 == [bufsIn |-> bufs, bufsTrue |-> bufsTrue,
                           bufsFalse |-> bufsFalse, countOfPackets |-> 0]
                   tt == [i \in DOMAIN ttt |-> IF i < n THEN r[i] ELSE ttt[i]]
                   st == IF vector THEN SeparateVector(st0, tt, n)
                                   ELSE SeparateScalar(st0, r, n)
               IN /\ ttt' = IF vector THEN tt ELSE ttt
                  /\ bufsTrue' = st.bufsTrue
                  /\ bufsFalse' = st.bufsFalse
                  /\ calls' = [calls EXCEPT !["stage"] = SeparateCalls(st, n)]
                  /\ lastRes' = [k \in 1 .. n |-> r[k - 1]]
          /\ rings' = [rings EXCEPT ![InRing] = SubSeq(@, n + 1, Len(@))]
          /\ bufsIn' = bufs
          /\ deq' = [deq EXCEPT !["stage"] = @ + n]
          /\ lastBurst' = Slice(bufs, 0, n)
          /\ handed' = calls'["stage"]
    /\ pc' = [pc EXCEPT !["stage"] = "enqueue"]
    /\ UNCHANGED <<pool, Dropped, confVars, done, done2, tmp, bufsFirst,
                   bufsSecond, currentPacketNumber, sw, OutputMbufs,
                   countOfPackets, generated, acc, shed, refused, placed>>

\* -------------------------------------------------------------- partition
\* a loop body that compares with N on both sides
PartitionStepBothN(st, i) ==
    LET number == st.currentPacketNumber + 1
    IN IF st.sw = TRUE
       THEN [st EXCEPT !.bufsFirst[st.countOfPackets] = st.bufsIn[i],
                       !.countOfPackets = @ + 1,
                       !.sw = IF number = N THEN FALSE ELSE TRUE,
                       !.currentPacketNumber = IF number = N THEN 0 ELSE number]
       ELSE [st EXCEPT !.bufsSecond[i - st.countOfPackets] = st.bufsIn[i],
                       !.sw = IF number = N THEN TRUE ELSE FALSE,
                       !.currentPacketNumber = IF number = N THEN 0 ELSE number]

\* the loop body: count the packet, put it on the current side, and switch
\* sides when the count reaches the bound of that side (the uint64 count
\* stays far below 2^64 here, so it never wraps)
PartitionStep(st, i) ==
    LET number == st.currentPacketNumber + 1
    IN IF st.sw = TRUE
       THEN [st EXCEPT !.bufsFirst[st.countOfPackets] = st.bufsIn[i],
                       !.countOfPackets = @ + 1,
                       !.sw = IF number = N THEN FALSE ELSE TRUE,
                       !.currentPacketNumber = IF number = N THEN 0 ELSE number]
       ELSE [st EXCEPT !.bufsSecond[i - st.countOfPackets] = st.bufsIn[i],
                       !.sw = IF number = M THEN TRUE ELSE FALSE,
                       !.currentPacketNumber = IF number = M THEN 0 ELSE number]

RECURSIVE PartitionLoop(_, _, _)
\* for i := from; i < n; i++
PartitionLoop(st, from, n) ==
    IF from >= n THEN st
    ELSE PartitionLoop(PartitionStep(st, from), from + 1, n)

\* the two calls after the loop, the first output first
PartitionCalls(st, n) ==
    (IF st.countOfPackets # 0
     THEN <<Call(OutRing(0), st.bufsFirst, st.countOfPackets, 0)>>
     ELSE <<>>)
    \o
    (IF st.countOfPackets # n
     THEN <<Call(OutRing(1), st.bufsSecond, n - st.countOfPackets, 0)>>
     ELSE <<>>)

partition ==
    /\ UNCHANGED <<buildVars, replVars, extVars>>
    /\ kind = "partitioner"
    /\ pc["stage"] = "loop"
    /\ LET n == DequeueBurst(rings[InRing], burstSize)
           bufs == Fill(bufsIn, SubSeq(rings[InRing], 1, n))
           st == PartitionLoop([bufsIn |-> bufs, bufsFirst |-> bufsFirst,
                                bufsSecond |-> bufsSecond, countOfPackets |-> 0,
                                currentPacketNumber |-> currentPacketNumber,
                                sw |-> sw], 0, n)
       IN /\ n # 0
          /\ rings' = [rings EXCEPT ![InRing] = SubSeq(@, n + 1, Len(@))]
          /\ bufsIn' = bufs
          /\ bufsFirst' = st.bufsFirst
          /\ bufsSecond' = st.bufsSecond
          /\ currentPacketNumber' = st.currentPacketNumber
          /\ sw' = st.sw
          /\ calls' = [calls EXCEPT !["stage"] = PartitionCalls(st, n)]
          /\ deq' = [deq EXCEPT !["stage"] = @ + n]
          /\ lastBurst' = Slice(bufs, 0, n)
          /\ lastRes' = <<>>
          /\ handed' = calls'["stage"]
    /\ pc' = [pc EXCEPT !["stage"] = "enqueue"]
    /\ UNCHANGED <<pool, Dropped, confVars, done, done2, tmp, bufsTrue,
                   bufsFalse, ttt, OutputMbufs, countOfPackets, generated,
                   acc, shed, refused, placed>>

\* ------------------------------------------------------------------ split
\* the loop body: the packet goes to the next free slot of the array of the
\* output the user function chose
SplitStep(st, i, index) ==
    [st EXCEPT !.OutputMbufs[index][st.countOfPackets[index]] = st.InputMbufs[i],
               !.countOfPackets[index] = @ + 1]

RECURSIVE SplitLoop(_, _, _, _)
\* for i := from; i < to; i++ with the results r[i]
SplitLoop(st, r, from, to) ==
    IF from >= to THEN st
    ELSE SplitLoop(SplitStep(st, from, r[from]), r, from + 1, to)

RECURSIVE SplitCalls(_, _)
\* for index := from; index < flowNumber; index++: skip the empty outputs
SplitCalls(st, from) ==
    IF from >= flowNumber THEN <<>>
    ELSE (IF st.countOfPackets[from] = 0 THEN <<>>
          ELSE <<Call(OutRing(from), st.OutputMbufs[from],
                      st.countOfPackets[from], from)>>)
         \o SplitCalls(st, from + 1)

split ==
    /\ UNCHANGED <<buildVars, replVars, extVars>>
    /\ kind = "splitter"
    /\ pc["stage"] = "loop"
    /\ LET n == DequeueBurst(rings[InRing], burstSize)
           bufs == Fill(bufsIn, SubSeq(rings[InRing], 1, n))
       IN /\ n # 0
          /\ \E r \in [0 .. (n - 1) -> 0 .. (flowNumber - 1)] :
               LET st0 == [InputMbufs |-> bufs, OutputMbufs |-> OutputMbufs,
                           countOfPackets |-> countOfPackets]
                   st == SplitStep(SplitLoop(st0, r, 0, n - 1), n - 1, r[n - 1])
               IN /\ OutputMbufs' = st.OutputMbufs
                  /\ countOfPackets' = st.countOfPackets
                  /\ calls' = [calls EXCEPT !["stage"] = SplitCalls(st, 0)]
                  /\ lastRes' = [k \in 1 .. n |-> r[k - 1]]
          /\ rings' = [rings EXCEPT ![InRing] = SubSeq(@, n + 1, Len(@))]
          /\ bufsIn' = bufs
          /\ deq' = [deq EXCEPT !["stage"] = @ + n]
          /\ lastBurst' = Slice(bufs, 0, n)
          /\ handed' = calls'["stage"]
    /\ pc' = [pc EXCEPT !["stage"] = "enqueue"]
    /\ UNCHANGED <<pool, Dropped, confVars, done, done2, tmp, bufsTrue,
                   bufsFalse, ttt, bufsFirst, bufsSecond, currentPacketNumber,
                   sw, generated, acc, shed, refused, placed>>

\* ------------------------------------------------------- terminal consumers
\* low.Send on an output ring: a burst leaves the ring and is transmitted;
\* the driver frees the transmitted buffers to the mempool
send ==
    /\ UNCHANGED <<buildVars, replVars, extVars>>
    /\ \E j \in 0 .. (NumOuts - 1) :
         LET n == DequeueBurst(rings[OutRing(j)], burstSize)
         IN /\ n # 0
            /\ pool' = Free(pool, SubSeq(rings[OutRing(j)], 1, n))
            /\ rings' = [rings EXCEPT ![OutRing(j)] = SubSeq(@, n + 1, Len(@))]
    /\ UNCHANGED <<Dropped, confVars, pc, calls, done, done2, tmp, stageVars,
                   generated, deq, acc, shed, refused, histVars, placed>>

\* the scheduler's stop routine: a burst leaves the stop ring and is freed
StopDrain ==
    /\ UNCHANGED <<buildVars, replVars, extVars>>
    /\ LET n == DequeueBurst(rings[StopRing], burstSize)
       IN /\ n # 0
          /\ pool' = Free(pool, SubSeq(rings[StopRing], 1, n))
          /\ rings' = [rings EXCEPT ![StopRing] = SubSeq(@, n + 1, Len(@))]
    /\ UNCHANGED <<Dropped, confVars, pc, calls, done, done2, tmp, stageVars,
                   generated, deq, acc, shed, refused, histVars, placed>>

\* ------------------------------------------------------ graph construction
MaxOps == 3             \* builder calls in one behaviour
NumPorts == 1           \* low.GetPortsNumber()
MaxMerge == 2           \* flows given to one SetMerger call
Nil == 0
inactivePort == 0
autoPort == 1
manualPort == 2

\* the dynamic type of a function argument: func(*Packet, UserContext),
\* func([]*Packet, uint, UserContext), the two with a bool result or bool
\* slice, and any other type
Prototypes == {"scalar", "vector", "boolScalar", "boolVector", "other"}

\* the record of a builder call: its name, the flows and the numbers it was
\* given, and the error it reported ("none" if it returned)
Returned(op, ins, arg, err) ==
    /\ built' = built + 1
    /\ lastCall' = [op |-> op, ins |-> ins, arg |-> arg, err |-> err]

\* generateRingName: the ring made now gets the number ringName
\* common.LogError ends the process: no builder call runs after it
LogError ==
    /\ phase' = "exit"
    /\ UNCHANGED <<flows, ringName, ffCount, openFlowsNumber, UnClonable,
                   Clonable, warnings>>

\* a builder call that ends in LogError before it changed anything
Failed(op, ins, arg, err) ==
    /\ LogError
    /\ Returned(op, ins, arg, err)
    /\ UNCHANGED <<createdPorts, merged>>

\* a checkFlow that lets a closed flow pass
checkFlowAlways(f) == TRUE
\* checkFlow: a closed flow (f.current == nil) is an error
checkFlow(f) == f # Nil

\* schedState.NewUnclonableFlowFunction, schedState.NewClonableFlowFunction
FlowFunction(name, id, par) == [Name |-> name, ID |-> id, Parameters |-> par]

makeReceiver(port, queue, out) ==
    FlowFunction("receiver", ffCount + 1,
                 [type |-> "receiveParameters", out |-> out, queue |-> queue,
                  port |-> port])

makeGeneratorOne(out) ==
    FlowFunction("generator", ffCount + 1,
                 [type |-> "generateParameters", out |-> out, targetSpeed |-> 0,
                  vector |-> FALSE])

makeGeneratorPerf(out, vec, targetSpeed) ==
    FlowFunction("fast generator", ffCount + 1,
                 [type |-> "generateParameters", out |-> out,
                  targetSpeed |-> targetSpeed, vector |-> vec])

makeSender(port, queue, in) ==
    FlowFunction("sender", ffCount + 1,
                 [type |-> "sendParameters", in |-> in, queue |-> queue,
                  port |-> port])

makePartitioner(in, outFirst, outSecond, n, m) ==
    FlowFunction("partitioner", ffCount + 1,
                 [type |-> "partitionParameters", in |-> in,
                  outFirst |-> outFirst, outSecond |-> outSecond,
                  N |-> n, M |-> m])

makeSeparator(in, outTrue, outFalse, vec, name) ==
    FlowFunction(name, ffCount + 1,
                 [type |-> "separateParameters", in |-> in,
                  outTrue |-> outTrue, outFalse |-> outFalse, vector |-> vec])

makeSplitter(in, outs, fn) ==
    FlowFunction("splitter", ffCount + 1,
                 [type |-> "splitParameters", in |-> in, outs |-> outs,
                  flowNumber |-> fn])

makeHandler(in, out, vec, name) ==
    FlowFunction(name, ffCount + 1,
                 [type |-> "handleParameters", in |-> in, out |-> out,
                  vector |-> vec])

makeWriter(in) ==
    FlowFunction("writer", ffCount + 1, [type |-> "writeParameters", in |-> in])

makeReader(out, repcount) ==
    FlowFunction("reader", ffCount + 1,
                 [type |-> "readParameters", out |-> out, repcount |-> repcount])

\* a SetWriter that leaves the flow open on the ring the writer reads
SetWriterKeepsFlow(In) ==
    /\ phase = "construct"
    /\ built < MaxOps
    /\ In \in DOMAIN flows
    /\ IF ~checkFlow(flows[In])
       THEN Failed("SetWriter", <<In>>, <<>>, "closed")
       ELSE /\ UnClonable' = Append(UnClonable, makeWriter(flows[In]))
            /\ ffCount' = ffCount + 1
            /\ flows' = flows
            /\ openFlowsNumber' = openFlowsNumber - 1
            /\ Returned("SetWriter", <<In>>, <<>>, "none")
            /\ UNCHANGED <<phase, ringName, Clonable, warnings, createdPorts,
                           merged>>
    /\ UNCHANGED <<runVars, replVars, extVars>>

\* SetWriter: the writer reads the flow's ring; the flow is closed
SetWriter(In) ==
    /\ phase = "construct"
    /\ built < MaxOps
    /\ In \in DOMAIN flows
    /\ IF ~checkFlow(flows[In])
       THEN Failed("SetWriter", <<In>>, <<>>, "closed")
       ELSE /\ UnClonable' = Append(UnClonable, makeWriter(flows[In]))
            /\ ffCount' = ffCount + 1
            /\ flows' = [flows EXCEPT ![In] = Nil]
            /\ openFlowsNumber' = openFlowsNumber - 1
            /\ Returned("SetWriter", <<In>>, <<>>, "none")
            /\ UNCHANGED <<phase, ringName, Clonable, warnings, createdPorts,
                           merged>>
    /\ UNCHANGED <<runVars, replVars, extVars>>

\* SetReader: a new ring, a reader that fills it, a new open flow on it
SetReader(repcount) ==
    /\ phase = "construct"
    /\ built < MaxOps
    /\ ringName' = ringName + 1
    /\ ffCount' = ffCount + 1
    /\ UnClonable' = Append(UnClonable, makeReader(ringName, repcount))
    /\ flows' = Append(flows, ringName)
    /\ openFlowsNumber' = openFlowsNumber + 1
    /\ Returned("SetReader", <<>>, <<repcount>>, "none")
    /\ UNCHANGED <<phase, Clonable, warnings, createdPorts, merged>>
    /\ UNCHANGED <<runVars, replVars, extVars>>

\* a SetReceiver that gives every receiver rx queue 0
SetReceiverQueueZero(port) ==
    /\ phase = "construct"
    /\ built < MaxOps
    /\ IF port >= NumPorts
       THEN Failed("SetReceiver", <<>>, <<port>>, "range")
       ELSE IF createdPorts[port].config = manualPort
       THEN Failed("SetReceiver", <<>>, <<port>>, "manual")
       ELSE /\ createdPorts' = [createdPorts EXCEPT
                  ![port].config = autoPort,
                  ![port].rxQueues = Append(@, TRUE),
                  ![port].rxQueuesNumber = @ + 1]
            /\ ringName' = ringName + 1
            /\ ffCount' = ffCount + 1
            /\ UnClonable' = Append(UnClonable,
                   makeReceiver(port, 0, ringName))
            /\ flows' = Append(flows, ringName)
            /\ openFlowsNumber' = openFlowsNumber + 1
            /\ Returned("SetReceiver", <<>>, <<port>>, "none")
            /\ UNCHANGED <<phase, Clonable, warnings, merged>>
    /\ UNCHANGED <<runVars, replVars, extVars>>

\* SetReceiver: the port must exist and must not be manual; it becomes an
\* auto port with one more receive queue, whose receiver fills a new ring
SetReceiver(port) ==
    /\ phase = "construct"
    /\ built < MaxOps
    /\ IF port >= NumPorts
       THEN Failed("SetReceiver", <<>>, <<port>>, "range")
       ELSE IF createdPorts[port].config = manualPort
       THEN Failed("SetReceiver", <<>>, <<port>>, "manual")
       ELSE /\ createdPorts' = [createdPorts EXCEPT
                  ![port].config = autoPort,
                  ![port].rxQueues = Append(@, TRUE),
                  ![port].rxQueuesNumber = @ + 1]
            /\ ringName' = ringName + 1
            /\ ffCount' = ffCount + 1
            /\ UnClonable' = Append(UnClonable,
                   makeReceiver(port, createdPorts[port].rxQueuesNumber, ringName))
            /\ flows' = Append(flows, ringName)
            /\ openFlowsNumber' = openFlowsNumber + 1
            /\ Returned("SetReceiver", <<>>, <<port>>, "none")
            /\ UNCHANGED <<phase, Clonable, warnings, merged>>
    /\ UNCHANGED <<runVars, replVars, extVars>>

\* SetGenerator: a new ring, a clonable generator if targetSpeed > 0 and an
\* unclonable one otherwise, and a new open flow on the ring; the function
\* must have a generate prototype (the scalar one if targetSpeed is 0)
SetGenerator(f, targetSpeed) ==
    /\ phase = "construct"
    /\ built < MaxOps
    /\ IF (targetSpeed > 0 /\ f \notin {"scalar", "vector"})
          \/ (targetSpeed = 0 /\ f # "scalar")
       THEN /\ phase' = "exit"
            /\ ringName' = ringName + 1
            /\ Returned("SetGenerator", <<>>, <<targetSpeed>>, "prototype")
            /\ UNCHANGED <<flows, ffCount, openFlowsNumber, UnClonable,
                           Clonable, warnings, createdPorts, merged>>
       ELSE /\ ringName' = ringName + 1
            /\ ffCount' = ffCount + 1
            /\ IF targetSpeed > 0
               THEN /\ Clonable' = Append(Clonable,
                          makeGeneratorPerf(ringName, f = "vector", targetSpeed))
                    /\ UNCHANGED UnClonable
               ELSE /\ UnClonable' = Append(UnClonable, makeGeneratorOne(ringName))
                    /\ UNCHANGED Clonable
            /\ flows' = Append(flows, ringName)
            /\ openFlowsNumber' = openFlowsNumber + 1
            /\ Returned("SetGenerator", <<>>, <<targetSpeed>>, "none")
            /\ UNCHANGED <<phase, warnings, createdPorts, merged>>
    /\ UNCHANGED <<runVars, replVars, extVars>>

\* a SetSender that does not look at the port's configuration
SetSenderAnyPort(In, port) ==
    /\ phase = "construct"
    /\ built < MaxOps
    /\ In \in DOMAIN flows
    /\ port < NumPorts
    /\ checkFlow(flows[In])
    /\ createdPorts' = [createdPorts EXCEPT
           ![port].config = autoPort,
           ![port].txQueues = Append(@, TRUE),
           ![port].txQueuesNumber = @ + 1]
    /\ ffCount' = ffCount + 1
    /\ UnClonable' = Append(UnClonable,
           makeSender(port, createdPorts[port].txQueuesNumber, flows[In]))
    /\ flows' = [flows EXCEPT ![In] = Nil]
    /\ openFlowsNumber' = openFlowsNumber - 1
    /\ Returned("SetSender", <<In>>, <<port>>, "none")
    /\ UNCHANGED <<phase, ringName, Clonable, warnings, merged>>
    /\ UNCHANGED <<runVars, replVars, extVars>>

\* SetSender: the flow must be open, the port must exist and must not be
\* manual; it becomes an auto port with one more send queue, whose sender
\* reads the flow's ring; the flow is closed
SetSender(In, port) ==
    /\ phase = "construct"
    /\ built < MaxOps
    /\ In \in DOMAIN flows
    /\ IF ~checkFlow(flows[In])
       THEN Failed("SetSender", <<In>>, <<port>>, "closed")
       ELSE IF port >= NumPorts
       THEN Failed("SetSender", <<In>>, <<port>>, "range")
       ELSE IF createdPorts[port].config = manualPort
       THEN Failed("SetSender", <<In>>, <<port>>, "manual")
       ELSE /\ createdPorts' = [createdPorts EXCEPT
                  ![port].config = autoPort,
                  ![port].txQueues = Append(@, TRUE),
                  ![port].txQueuesNumber = @ + 1]
            /\ ffCount' = ffCount + 1
            /\ UnClonable' = Append(UnClonable,
                   makeSender(port, createdPorts[port].txQueuesNumber, flows[In]))
            /\ flows' = [flows EXCEPT ![In] = Nil]
            /\ openFlowsNumber' = openFlowsNumber - 1
            /\ Returned("SetSender", <<In>>, <<port>>, "none")
            /\ UNCHANGED <<phase, ringName, Clonable, warnings, merged>>
    /\ UNCHANGED <<runVars, replVars, extVars>>

\* a SetPartitioner that registers the partitioner with the clonable functions
SetPartitionerClonable(In, n, m) ==
    /\ phase = "construct"
    /\ built < MaxOps
    /\ In \in DOMAIN flows
    /\ checkFlow(flows[In])
    /\ warnings' = IF n = 0 \/ m = 0 THEN warnings + 1 ELSE warnings
    /\ ringName' = ringName + 2
    /\ openFlowsNumber' = openFlowsNumber + 1
    /\ ffCount' = ffCount + 1
    /\ Clonable' = Append(Clonable,
           makePartitioner(flows[In], ringName, ringName + 1, n, m))
    /\ flows' = Append([flows EXCEPT ![In] = ringName], ringName + 1)
    /\ Returned("SetPartitioner", <<In>>, <<n, m>>, "none")
    /\ UNCHANGED <<phase, UnClonable, createdPorts, merged>>
    /\ UNCHANGED <<runVars, replVars, extVars>>

\* SetPartitioner: zero N or M is logged as a warning; two new rings, the
\* partitioner is registered unclonable, the flow In moves to the first ring and the
\* new flow OUT is on the second
SetPartitioner(In, n, m) ==
    /\ phase = "construct"
    /\ built < MaxOps
    /\ In \in DOMAIN flows
    /\ IF ~checkFlow(flows[In])
       THEN Failed("SetPartitioner", <<In>>, <<n, m>>, "closed")
       ELSE /\ warnings' = IF n = 0 \/ m = 0 THEN warnings + 1 ELSE warnings
            /\ ringName' = ringName + 2
            /\ openFlowsNumber' = openFlowsNumber + 1
            /\ ffCount' = ffCount + 1
            /\ UnClonable' = Append(UnClonable,
                   makePartitioner(flows[In], ringName, ringName + 1, n, m))
            /\ flows' = Append([flows EXCEPT ![In] = ringName], ringName + 1)
            /\ Returned("SetPartitioner", <<In>>, <<n, m>>, "none")
            /\ UNCHANGED <<phase, Clonable, createdPorts, merged>>
    /\ UNCHANGED <<runVars, replVars, extVars>>

\* SetSeparator: two new rings; the function must have a separate prototype;
\* the separator is registered clonable, the flow In moves to the true ring
\* and the new flow OUT is on the false ring
SetSeparator(In, f) ==
    /\ phase = "construct"
    /\ built < MaxOps
    /\ In \in DOMAIN flows
    /\ IF ~checkFlow(flows[In])
       THEN Failed("SetSeparator", <<In>>, <<>>, "closed")
       ELSE IF f \notin {"boolScalar", "boolVector"}
       THEN /\ phase' = "exit"
            /\ ringName' = ringName + 2
            /\ openFlowsNumber' = openFlowsNumber + 1
            /\ Returned("SetSeparator", <<In>>, <<>>, "prototype")
            /\ UNCHANGED <<flows, ffCount, UnClonable, Clonable, warnings,
                           createdPorts, merged>>
       ELSE /\ ringName' = ringName + 2
            /\ openFlowsNumber' = openFlowsNumber + 1
            /\ ffCount' = ffCount + 1
            /\ Clonable' = Append(Clonable,
                   makeSeparator(flows[In], ringName, ringName + 1,
                                 f = "boolVector",
                                 IF f = "boolVector" THEN "vector separator"
                                                     ELSE "separator"))
            /\ flows' = Append([flows EXCEPT ![In] = ringName], ringName + 1)
            /\ Returned("SetSeparator", <<In>>, <<>>, "none")
            /\ UNCHANGED <<phase, UnClonable, warnings, createdPorts, merged>>
    /\ UNCHANGED <<runVars, replVars, extVars>>

\* SetSplitter: flowNumber new rings and new open flows, one per output; the
\* splitter is registered clonable; the flow In is closed
SetSplitter(In, fn) ==
    /\ phase = "construct"
    /\ built < MaxOps
    /\ In \in DOMAIN flows
    /\ IF ~checkFlow(flows[In])
       THEN Failed("SetSplitter", <<In>>, <<fn>>, "closed")
       ELSE /\ ringName' = ringName + fn
            /\ openFlowsNumber' = (openFlowsNumber + fn) - 1
            /\ ffCount' = ffCount + 1
            /\ Clonable' = Append(Clonable,
                   makeSplitter(flows[In],
                                [i \in 0 .. (fn - 1) |-> ringName + i], fn))
            /\ flows' = [flows EXCEPT ![In] = Nil]
                          \o [i \in 1 .. fn |-> ringName + (i - 1)]
            /\ Returned("SetSplitter", <<In>>, <<fn>>, "none")
            /\ UNCHANGED <<phase, UnClonable, warnings, createdPorts, merged>>
    /\ UNCHANGED <<runVars, replVars, extVars>>

\* a rewrite that redirects a generator whatever its output ring is
mergeParametersAnyGenerator(par, from, to) ==
    CASE par.type = "receiveParameters" ->
           IF par.out = from THEN [par EXCEPT !.out = to] ELSE par
      [] par.type = "partitionParameters" ->
           [par EXCEPT !.outFirst = IF @ = from THEN to ELSE @,
                       !.outSecond = IF @ = from THEN to ELSE @]
      [] par.type = "generateParameters" -> [par EXCEPT !.out = to]
      [] par.type = "splitParameters" ->
           [par EXCEPT !.outs = [j \in DOMAIN @ |->
                                   IF @[j] = from THEN to ELSE @[j]]]
      [] par.type = "separateParameters" ->
           [par EXCEPT !.outTrue = IF @ = from THEN to ELSE @,
                       !.outFalse = IF @ = from THEN to ELSE @]
      [] par.type = "handleParameters" ->
           IF par.out = from THEN [par EXCEPT !.out = to] ELSE par
      [] OTHER -> par

\* the rewrite of one flow function's parameters by merge(from, to)
mergeParameters(par, from, to) ==
    CASE par.type = "receiveParameters" ->
           IF par.out = from THEN [par EXCEPT !.out = to] ELSE par
      [] par.type = "partitionParameters" ->
           [par EXCEPT !.outFirst = IF @ = from THEN to ELSE @,
                       !.outSecond = IF @ = from THEN to ELSE @]
      [] par.type = "generateParameters" ->
           IF par.out = from THEN [par EXCEPT !.out = to] ELSE par
      [] par.type = "splitParameters" ->
           [par EXCEPT !.outs = [j \in DOMAIN @ |->
                                   IF @[j] = from THEN to ELSE @[j]]]
      [] par.type = "separateParameters" ->
           [par EXCEPT !.outTrue = IF @ = from THEN to ELSE @,
                       !.outFalse = IF @ = from THEN to ELSE @]
      [] par.type = "handleParameters" ->
           IF par.out = from THEN [par EXCEPT !.out = to] ELSE par
      [] OTHER -> par

\* merge over one of the scheduler's lists
merge(list, from, to) ==
    [i \in DOMAIN list |->
        [list[i] EXCEPT !.Parameters = mergeParameters(@, from, to)]]

\* a stopper that forgets to count the flow it closed
SetStopperNoCount(In) ==
    /\ phase = "construct"
    /\ built < MaxOps
    /\ In \in DOMAIN flows
    /\ checkFlow(flows[In])
    /\ UnClonable' = merge(UnClonable, flows[In], StopRing)
    /\ Clonable' = merge(Clonable, flows[In], StopRing)
    /\ flows' = [flows EXCEPT ![In] = Nil]
    /\ merged' = merged \cup {flows[In]}
    /\ Returned("SetStopper", <<In>>, <<>>, "none")
    /\ UNCHANGED <<phase, ringName, ffCount, warnings, createdPorts,
                   openFlowsNumber>>
    /\ UNCHANGED <<runVars, replVars, extVars>>

\* SetStopper: the producers of the flow's ring now write to the stop ring
SetStopper(In) ==
    /\ phase = "construct"
    /\ built < MaxOps
    /\ In \in DOMAIN flows
    /\ IF ~checkFlow(flows[In])
       THEN Failed("SetStopper", <<In>>, <<>>, "closed")
       ELSE /\ UnClonable' = merge(UnClonable, flows[In], StopRing)
            /\ Clonable' = merge(Clonable, flows[In], StopRing)
            /\ flows' = [flows EXCEPT ![In] = Nil]
            /\ openFlowsNumber' = openFlowsNumber - 1
            /\ merged' = merged \cup {flows[In]}
            /\ Returned("SetStopper", <<In>>, <<>>, "none")
            /\ UNCHANGED <<phase, ringName, ffCount, warnings, createdPorts>>
    /\ UNCHANGED <<runVars, replVars, extVars>>

\* a SetHandler that makes a plain handler of a function with a bool result
SetHandlerIgnoreResult(In, f) ==
    /\ phase = "construct"
    /\ built < MaxOps
    /\ In \in DOMAIN flows
    /\ IF ~checkFlow(flows[In])
       THEN Failed("SetHandler", <<In>>, <<>>, "closed")
       ELSE IF f = "other"
       THEN /\ phase' = "exit"
            /\ ringName' = ringName + 1
            /\ Returned("SetHandler", <<In>>, <<f>>, "prototype")
            /\ UNCHANGED <<flows, ffCount, openFlowsNumber, UnClonable,
                           Clonable, warnings, createdPorts, merged>>
       ELSE /\ ringName' = ringName + 1
            /\ ffCount' = ffCount + 1
            /\ Clonable' = Append(Clonable,
                   CASE f = "scalar" ->
                          makeHandler(flows[In], ringName, FALSE, "handler")
                     [] f = "vector" ->
                          makeHandler(flows[In], ringName, TRUE, "vector handler")
                     [] f = "boolScalar" ->
                          makeHandler(flows[In], ringName, FALSE, "handler")
                     [] f = "boolVector" ->
                          makeHandler(flows[In], ringName, TRUE, "vector handler"))
            /\ flows' = [flows EXCEPT ![In] = ringName]
            /\ Returned("SetHandler", <<In>>, <<f>>, "none")
            /\ UNCHANGED <<phase, openFlowsNumber, UnClonable, warnings,
                           createdPorts, merged>>
    /\ UNCHANGED <<runVars, replVars, extVars>>

\* SetHandler: a new ring; a handle prototype makes a handler, a separate
\* prototype makes a separator whose false output is the stop ring; the
\* flow In moves to the new ring.  The call is recorded with the prototype
\* once the type switch has looked at it
SetHandler(In, f) ==
    /\ phase = "construct"
    /\ built < MaxOps
    /\ In \in DOMAIN flows
    /\ IF ~checkFlow(flows[In])
       THEN Failed("SetHandler", <<In>>, <<>>, "closed")
       ELSE IF f = "other"
       THEN /\ phase' = "exit"
            /\ ringName' = ringName + 1
            /\ Returned("SetHandler", <<In>>, <<f>>, "prototype")
            /\ UNCHANGED <<flows, ffCount, openFlowsNumber, UnClonable,
                           Clonable, warnings, createdPorts, merged>>
       ELSE /\ ringName' = ringName + 1
            /\ ffCount' = ffCount + 1
            /\ Clonable' = Append(Clonable,
                   CASE f = "scalar" ->
                          makeHandler(flows[In], ringName, FALSE, "handler")
                     [] f = "vector" ->
                          makeHandler(flows[In], ringName, TRUE, "vector handler")
                     [] f = "boolScalar" ->
                          makeSeparator(flows[In], ringName, StopRing, FALSE,
                                        "handler")
                     [] f = "boolVector" ->
                          makeSeparator(flows[In], ringName, StopRing, TRUE,
                                        "vector handler"))
            /\ flows' = [flows EXCEPT ![In] = ringName]
            /\ Returned("SetHandler", <<In>>, <<f>>, "none")
            /\ UNCHANGED <<phase, openFlowsNumber, UnClonable, warnings,
                           createdPorts, merged>>
    /\ UNCHANGED <<runVars, replVars, extVars>>

RECURSIVE MergeLoop(_, _, _, _)
\* for i := range InArray: checkFlow, merge into ring, close the flow, count
\* it; st.err says that checkFlow ended the loop with LogError
MergeLoop(st, InArray, i, ring) ==
    IF i > Len(InArray) THEN st
    ELSE IF ~checkFlow(st.flows[InArray[i]]) THEN [st EXCEPT !.err = TRUE]
    ELSE MergeLoop([U |-> merge(st.U, st.flows[InArray[i]], ring),
                    C |-> merge(st.C, st.flows[InArray[i]], ring),
                    flows |-> [st.flows EXCEPT ![InArray[i]] = Nil],
                    open |-> st.open - 1,
                    merged |-> st.merged \cup {st.flows[InArray[i]]},
                    err |-> FALSE],
                   InArray, i + 1, ring)

\* SetMerger: a new ring; each input flow in turn is merged into it and
\* closed; a new open flow on the ring
SetMerger(InArray) ==
    /\ phase = "construct"
    /\ built < MaxOps
    /\ \A i \in DOMAIN InArray : InArray[i] \in DOMAIN flows
    /\ LET st == MergeLoop([U |-> UnClonable, C |-> Clonable, flows |-> flows,
                            open |-> openFlowsNumber, merged |-> merged,
                            err |-> FALSE],
                           InArray, 1, ringName)
       IN /\ ringName' = ringName + 1
          /\ UnClonable' = st.U
          /\ Clonable' = st.C
          /\ merged' = st.merged
          /\ IF st.err
             THEN /\ phase' = "exit"
                  /\ flows' = st.flows
                  /\ openFlowsNumber' = st.open
                  /\ Returned("SetMerger", InArray, <<>>, "closed")
             ELSE /\ phase' = phase
                  /\ flows' = Append(st.flows, ringName)
                  /\ openFlowsNumber' = st.open + 1
                  /\ Returned("SetMerger", InArray, <<>>, "none")
    /\ UNCHANGED <<ffCount, warnings, createdPorts>>
    /\ UNCHANGED <<runVars, replVars, extVars>>

\* checkSystem: the first error it reports, "none" if it reports none
checkSystem ==
    IF openFlowsNumber # 0 THEN "open"
    ELSE IF \E i \in DOMAIN createdPorts :
              /\ createdPorts[i].config # inactivePort
              /\ createdPorts[i].rxQueuesNumber = 0
              /\ createdPorts[i].txQueuesNumber = 0
    THEN "queues"
    ELSE IF \E i \in DOMAIN createdPorts :
              /\ createdPorts[i].config # inactivePort
              /\ \E j \in DOMAIN createdPorts[i].rxQueues :
                   createdPorts[i].rxQueues[j] # TRUE
    THEN "rss"
    ELSE "none"

\* SystemStart: checkSystem rejects a graph with open flows; otherwise the
\* scheduler starts every registered flow function
SystemStart ==
    /\ phase = "construct"
    /\ IF checkSystem # "none"
       THEN Failed("SystemStart", <<>>, <<>>, checkSystem)
       ELSE /\ phase' = "running"
            /\ Returned("SystemStart", <<>>, <<>>, "none")
            /\ UNCHANGED <<flows, ringName, ffCount, openFlowsNumber,
                           UnClonable, Clonable, warnings, createdPorts,
                           merged>>
    /\ UNCHANGED <<runVars, replVars, extVars>>

\* the ports when graph construction begins: SystemInit leaves a port
\* inactive with no queues; a port the application has configured by hand is
\* a manual port with the one receive and one send queue it set up and uses
InitPorts ==
    \E manual \in SUBSET (0 .. (NumPorts - 1)) :
        createdPorts = [p \in 0 .. (NumPorts - 1) |->
            IF p \in manual
            THEN [port |-> p, config |-> manualPort,
                  rxQueues |-> <<TRUE>>, txQueues |-> <<TRUE>>,
                  rxQueuesNumber |-> 1, txQueuesNumber |-> 1]
            ELSE [port |-> p, config |-> inactivePort,
                  rxQueues |-> <<>>, txQueues |-> <<>>,
                  rxQueuesNumber |-> 0, txQueuesNumber |-> 0]]

\* the state SystemInit leaves: the stop ring took ring number 1

InitBuild ==
    /\ phase = "construct"
    /\ flows = <<>>
    /\ ringName = 2
    /\ ffCount = 0
    /\ openFlowsNumber = 0
    /\ UnClonable = <<>>
    /\ Clonable = <<>>
    /\ warnings = 0
    /\ InitPorts
    /\ built = 0
    /\ lastCall = [op |-> "SystemInit", ins |-> <<>>, arg |-> <<>>, err |-> "none"]
    /\ merged = {}

\* ------------------------------------------------------------- SystemInit
MaxConfig == 10         \* largest Config.RingSize and Config.BurstSize given

\* a threshold that multiplies before it divides
CloneThresholdTimesFirst(sm, bs) == ((sm * bs) * 4) \div 5
\* uint32(sizeMultiplier * burstSize / 5 * 4): Go evaluates left to right,
\* the division before the last product (the values here stay far below
\* 2^31, so neither the uint product nor the conversion to uint32 wraps)
CloneThreshold(sm, bs) == ((sm * bs) \div 5) * 4

\* the package variables as SystemInit leaves them for this model's rings
InitConfig ==
    /\ config = [sizeMultiplier |-> sizeMultiplier, burstSize |-> burstSize]
    /\ maxPacketsToClone = CloneThreshold(sizeMultiplier, burstSize)
    /\ stopRingSize = RingSize

\* the process before SystemInit: nothing is configured, no ring is made
InitProcess ==
    /\ phase = "start"
    /\ flows = <<>>
    /\ ringName = 1
    /\ ffCount = 0
    /\ openFlowsNumber = 0
    /\ UnClonable = <<>>
    /\ Clonable = <<>>
    /\ warnings = 0
    /\ createdPorts = <<>>
    /\ built = 0
    /\ lastCall = [op |-> "none", ins |-> <<>>, arg |-> <<>>, err |-> "none"]
    /\ merged = {}
    /\ config = [sizeMultiplier |-> 0, burstSize |-> 0]
    /\ maxPacketsToClone = 0
    /\ stopRingSize = 0

\* SystemInit: a zero field of Config means the default (RingSize 256,
\* BurstSize 32); the clone threshold is computed from the two; every port
\* is made inactive; the stop ring takes the first ring name
SystemInit(args) ==
    /\ phase = "start"
    /\ LET sm == IF args.RingSize # 0 THEN args.RingSize ELSE 256
           bs == IF args.BurstSize # 0 THEN args.BurstSize ELSE 32
       IN /\ config' = [sizeMultiplier |-> sm, burstSize |-> bs]
          /\ maxPacketsToClone' = CloneThreshold(sm, bs)
          /\ stopRingSize' = bs * sm
    /\ createdPorts' = [p \in 0 .. (NumPorts - 1) |->
                          [port |-> p, config |-> inactivePort,
                           rxQueues |-> <<>>, txQueues |-> <<>>,
                           rxQueuesNumber |-> 0, txQueuesNumber |-> 0]]
    /\ ringName' = ringName + 1
    /\ phase' = "construct"
    /\ lastCall' = [op |-> "SystemInit", ins |-> <<>>,
                    arg |-> <<args.RingSize, args.BurstSize>>, err |-> "none"]
    /\ UNCHANGED <<flows, ffCount, openFlowsNumber, UnClonable, Clonable,
                   warnings, built, merged>>
    /\ UNCHANGED <<runVars, replVars, schedVars, fileVars, cloneVars, cksumVars>>

\* ------------------------------------------------------------- replicas
NumReplicas == 1        \* replicas of the flow function
reportCap == 2          \* capacity of the report channel (make(chan uint64, 50))
MaxProcessed == 2       \* packets one replica processes in one behaviour
Replicas == 1 .. NumReplicas
\* the values the scheduler sends besides -1: a pause in nanoseconds, or 0
PauseValues == {0, 1}

\* a receive after which the replica ends whatever the value was
StopperReceiveAnyValue(r) ==
    /\ rpc[r] = "select"
    /\ stopper[r] # <<>>
    /\ pause' = [pause EXCEPT ![r] = Head(stopper[r])]
    /\ stopper' = [stopper EXCEPT ![r] = <<>>]
    /\ rpc' = [rpc EXCEPT ![r] = "done"]
    /\ UNCHANGED <<rkind, currentSpeed, report, schedRunning, processed,
                   published>>
    /\ UNCHANGED <<runVars, buildVars, extVars>>

\* case pause = <-stopper: the value becomes the pause value; on -1 the
\* replica closes the channel and returns
StopperReceive(r) ==
    /\ rpc[r] = "select"
    /\ stopper[r] # <<>>
    /\ pause' = [pause EXCEPT ![r] = Head(stopper[r])]
    /\ stopper' = [stopper EXCEPT ![r] = <<>>]
    /\ rpc' = [rpc EXCEPT ![r] = IF Head(stopper[r]) = -1 THEN "done" ELSE @]
    /\ UNCHANGED <<rkind, currentSpeed, report, schedRunning, processed,
                   published>>
    /\ UNCHANGED <<runVars, buildVars, extVars>>

\* case <-tick: the replica goes on to send currentSpeed on the report channel
Tick(r) ==
    /\ rpc[r] = "select"
    /\ rpc' = [rpc EXCEPT ![r] = "report"]
    /\ UNCHANGED <<rkind, pause, currentSpeed, stopper, report, schedRunning,
                   processed, published>>
    /\ UNCHANGED <<runVars, buildVars, extVars>>

\* a send that leaves the counter as it was
PublishNoReset(r) ==
    /\ rpc[r] = "report"
    /\ Len(report) < reportCap
    /\ report' = Append(report, currentSpeed[r])
    /\ published' = [published EXCEPT ![r] = @ + currentSpeed[r]]
    /\ rpc' = [rpc EXCEPT ![r] = "select"]
    /\ UNCHANGED <<rkind, pause, stopper, schedRunning, processed, currentSpeed>>
    /\ UNCHANGED <<runVars, buildVars, extVars>>

\* report <- currentSpeed; currentSpeed = 0: the send waits while the channel
\* is full
Publish(r) ==
    /\ rpc[r] = "report"
    /\ Len(report) < reportCap
    /\ report' = Append(report, currentSpeed[r])
    /\ published' = [published EXCEPT ![r] = @ + currentSpeed[r]]
    /\ currentSpeed' = [currentSpeed EXCEPT ![r] = 0]
    /\ rpc' = [rpc EXCEPT ![r] = "select"]
    /\ UNCHANGED <<rkind, pause, stopper, schedRunning, processed>>
    /\ UNCHANGED <<runVars, buildVars, extVars>>

\* an iteration that sleeps after every empty dequeue
WorkSleepAnyPause(r, n) ==
    /\ rpc[r] = "select"
    /\ stopper[r] = <<>>
    /\ rkind = "generatePerf" => n = burstSize
    /\ processed[r] + n <= MaxProcessed
    /\ IF n = 0
       THEN /\ rpc' = [rpc EXCEPT ![r] = "sleep"]
            /\ UNCHANGED <<currentSpeed, processed>>
       ELSE /\ currentSpeed' = [currentSpeed EXCEPT ![r] = @ + n]
            /\ processed' = [processed EXCEPT ![r] = @ + n]
            /\ UNCHANGED rpc
    /\ UNCHANGED <<rkind, pause, stopper, report, schedRunning, published>>
    /\ UNCHANGED <<runVars, buildVars, extVars>>

\* default: one iteration on a burst of n packets; select takes it only when
\* no value waits on the stop channel.  generatePerf always makes burstSize
\* packets; the others dequeue n, and on n = 0 sleep if pause is not 0
Work(r, n) ==
    /\ rpc[r] = "select"
    /\ stopper[r] = <<>>
    /\ rkind = "generatePerf" => n = burstSize
    /\ processed[r] + n <= MaxProcessed
    /\ IF n = 0
       THEN /\ rpc' = [rpc EXCEPT ![r] = IF pause[r] # 0 THEN "sleep" ELSE @]
            /\ UNCHANGED <<currentSpeed, processed>>
       ELSE /\ currentSpeed' = [currentSpeed EXCEPT ![r] = @ + n]
            /\ processed' = [processed EXCEPT ![r] = @ + n]
            /\ UNCHANGED rpc
    /\ UNCHANGED <<rkind, pause, stopper, report, schedRunning, published>>
    /\ UNCHANGED <<runVars, buildVars, extVars>>

\* time.Sleep(pause) is over
Wake(r) ==
    /\ rpc[r] = "sleep"
    /\ rpc' = [rpc EXCEPT ![r] = "select"]
    /\ UNCHANGED <<rkind, pause, currentSpeed, stopper, report, schedRunning,
                   processed, published>>
    /\ UNCHANGED <<runVars, buildVars, extVars>>

\* the scheduler sends v on the replica's stop channel: a pause value while
\* its loop runs, -1 to retire the replica or at shutdown; nothing after -1
SendStopper(r, v) ==
    /\ stopper[r] = <<>>
    /\ rpc[r] # "done"
    /\ schedRunning \/ v = -1
    /\ stopper' = [stopper EXCEPT ![r] = <<v>>]
    /\ UNCHANGED <<rkind, rpc, pause, currentSpeed, report, schedRunning,
                   processed, published>>
    /\ UNCHANGED <<runVars, buildVars, extVars>>

\* the scheduler's loop takes a value from the report channel
ReadReport ==
    /\ schedRunning
    /\ report # <<>>
    /\ report' = Tail(report)
    /\ UNCHANGED <<rkind, rpc, pause, currentSpeed, stopper, schedRunning,
                   processed, published>>
    /\ UNCHANGED <<runVars, buildVars, extVars>>

\* process shutdown ends the scheduler's loop
Shutdown ==
    /\ schedRunning
    /\ schedRunning' = FALSE
    /\ UNCHANGED <<rkind, rpc, pause, currentSpeed, stopper, report, processed,
                   published>>
    /\ UNCHANGED <<runVars, buildVars, extVars>>

\* the replicas as the scheduler starts them, at the top of their loop
InitLoop ==
    /\ rpc = [r \in Replicas |-> "select"]
    /\ pause = [r \in Replicas |-> 0]
    /\ currentSpeed = [r \in Replicas |-> 0]
    /\ stopper = [r \in Replicas |-> <<>>]
    /\ report = <<>>
    /\ schedRunning = TRUE
    /\ processed = [r \in Replicas |-> 0]
    /\ published = [r \in Replicas |-> 0]

\* the replicas of a fast generator, a handler, a separator or a splitter
InitReplica ==
    /\ rkind \in {"generatePerf", "handle", "separate", "split"}
    /\ InitLoop

\* ------------------------------------------------------------ PCAP files
MaxLen == 2             \* largest packet length in bytes
MaxRecords == 2         \* records in the reader's file
MaxRepcount == 2        \* largest repcount given to SetReader

\* WritePcapGlobalHdr: the global header is appended to the file
WritePcapGlobalHdr(f) ==
    Append(f, [type |-> "pcapGlobHdr", MagicNumber |-> "a1b2c3d4",
               VersionMajor |-> 2, VersionMinor |-> 4, Thiszone |-> 0,
               Sigfigs |-> 0, Snaplen |-> 65535, Network |-> 1])

MaxTime == 3            \* the clock takes the instants 0 .. MaxTime
\* instant i of the clock in nanoseconds: every half second, the odd ones a
\* microsecond later
ClockAt(i) == i * 500000000 + (i % 2) * 1000
Times == {ClockAt(i) : i \in 0 .. MaxTime}
\* time.Time.Unix and time.Time.UnixNano of the clock reading t
Unix(t) == t \div 1000000000
UnixNano(t) == t

\* a record header that gives the snapshot length as the original length
writePcapRecHdrSnaplen(f, pktBytes) ==
    LET t == now
    IN Append(f, [type |-> "pcapRecHdr", TsSec |-> Unix(t),
                  TsUsec |-> UnixNano(t) - Unix(t) * 1000000000,
                  InclLen |-> Len(pktBytes), OrigLen |-> 65535])
\* writePcapRecHdr: t := time.Now(); TsSec is uint32(t.Unix()), TsUsec is
\* uint32(t.UnixNano() - t.Unix()*1e9), both lengths are the length of the
\* packet (the clock values here are below 2^31, so no conversion wraps)
writePcapRecHdr(f, pktBytes) ==
    LET t == now
    IN Append(f, [type |-> "pcapRecHdr", TsSec |-> Unix(t),
                  TsUsec |-> UnixNano(t) - Unix(t) * 1000000000,
                  InclLen |-> Len(pktBytes), OrigLen |-> Len(pktBytes)])

\* writePacketBytes
writePacketBytes(f, pktBytes) == Append(f, [type |-> "bytes", data |-> pktBytes])

\* WritePcapOnePacket: the record header, then the packet bytes
WritePcapOnePacket(pkt, f) == writePacketBytes(writePcapRecHdr(f, pkt), pkt)

\* generateOne with a user function that fills the packet: the packets carry
\* an incrementing number in every byte and have a length the function picks
generateOnePacket ==
    /\ "generator" \in DOMAIN pc
    /\ pc["generator"] = "loop"
    /\ generated < MaxGenerated
    /\ \E h \in Handles :
         /\ AllocateMbufs(pool, h)
         /\ pool' = [pool EXCEPT ![h] = @ - 1]
         /\ \E len \in 1 .. MaxLen :
              mbuf' = [mbuf EXCEPT ![h] = [j \in 1 .. len |-> generated + 1]]
         /\ calls' = [calls EXCEPT !["generator"] =
                         <<Call(InRing, [i \in 0 .. 0 |-> h], 1, 0)>>]
    /\ pc' = [pc EXCEPT !["generator"] = "enqueue"]
    /\ generated' = generated + 1
    /\ deq' = [deq EXCEPT !["generator"] = @ + 1]
    /\ UNCHANGED <<rings, Dropped, confVars, done, done2, tmp, stageVars,
                   acc, shed, refused, histVars, placed>>
    /\ UNCHANGED <<inFile, rpRepcount, count, fpos, readHanded, outFile, wpc,
                   written, now, writtenAt>>
    /\ UNCHANGED <<buildVars, replVars, initVars, schedVars, cloneVars, cksumVars>>

\* readOnePacket at record pos of the file: at the end of the file it
\* reports EOF and leaves the packet as it was; otherwise the record's bytes
\* become the packet and the offset moves past the record
readOnePacket(pkt, pos) ==
    IF pos > Len(inFile)
    THEN [isEOF |-> TRUE, pkt |-> pkt, pos |-> pos]
    ELSE [isEOF |-> FALSE, pkt |-> inFile[pos], pos |-> pos + 1]

\* read, one iteration: allocate a buffer and read the next record into it;
\* at the end of the file count the pass and leave the loop if count is
\* repcount, otherwise seek back behind the global header and read the first
\* record (whatever that read reports); then safeEnqueue the buffer
read ==
    /\ "reader" \in DOMAIN pc
    /\ pc["reader"] = "loop"
    /\ generated < MaxGenerated
    /\ \E h \in Handles :
         /\ AllocateMbufs(pool, h)
         /\ pool' = [pool EXCEPT ![h] = @ - 1]
         /\ LET first == readOnePacket(mbuf[h], fpos)
                again == readOnePacket(mbuf[h], 1)
                got == IF first.isEOF THEN again ELSE first
            IN /\ count' = IF first.isEOF THEN count + 1 ELSE count
               /\ IF first.isEOF /\ count + 1 = rpRepcount
                  THEN /\ pc' = [pc EXCEPT !["reader"] = "done"]
                       /\ UNCHANGED <<mbuf, fpos, calls, readHanded>>
                  ELSE /\ mbuf' = [mbuf EXCEPT ![h] = got.pkt]
                       /\ fpos' = got.pos
                       /\ readHanded' = Append(readHanded, got.pkt)
                       /\ calls' = [calls EXCEPT !["reader"] =
                                       <<Call(InRing, [i \in 0 .. 0 |-> h], 1, 0)>>]
                       /\ pc' = [pc EXCEPT !["reader"] = "enqueue"]
    /\ generated' = generated + 1
    /\ deq' = [deq EXCEPT !["reader"] = @ + 1]
    /\ UNCHANGED <<rings, Dropped, confVars, done, done2, tmp, stageVars,
                   acc, shed, refused, histVars, placed>>
    /\ UNCHANGED <<inFile, rpRepcount, outFile, wpc, written, now, writtenAt>>
    /\ UNCHANGED <<buildVars, replVars, initVars, schedVars, cloneVars, cksumVars>>

\* write before its loop: os.Create makes the file empty, WritePcapGlobalHdr
\* writes the global header
WriteOpen ==
    /\ wpc = "start"
    /\ outFile' = WritePcapGlobalHdr(<<>>)
    /\ wpc' = "loop"
    /\ UNCHANGED <<mbuf, inFile, rpRepcount, count, fpos, readHanded, written,
                   now, writtenAt>>
    /\ UNCHANGED <<runVars, buildVars, replVars, initVars, schedVars,
                   cloneVars, cksumVars>>

\* write, one iteration that got a packet: it is dequeued and its record is
\* written; the loop does nothing else with the buffer
write ==
    /\ wpc = "loop"
    /\ LET n == DequeueBurst(rings[InRing], 1)
           h == Head(rings[InRing])
       IN /\ n # 0
          /\ rings' = [rings EXCEPT ![InRing] = Tail(@)]
          /\ outFile' = WritePcapOnePacket(mbuf[h], outFile)
          /\ written' = Append(written, mbuf[h])
          /\ writtenAt' = Append(writtenAt, now)
          /\ now' \in {t \in Times : t >= now}
    /\ UNCHANGED <<pool, Dropped, confVars, pc, calls, done, done2, tmp,
                   stageVars, generated, deq, acc, shed, refused, histVars,
                   placed>>
    /\ UNCHANGED <<mbuf, inFile, rpRepcount, count, fpos, readHanded, wpc>>
    /\ UNCHANGED <<buildVars, replVars, initVars, schedVars, cloneVars, cksumVars>>

\* no file is open and the buffers are empty
InitFileIdle ==
    /\ mbuf = [h \in Handles |-> <<>>]
    /\ inFile = <<>>
    /\ rpRepcount = 0
    /\ count = 0
    /\ fpos = 1
    /\ readHanded = <<>>
    /\ outFile = <<>>
    /\ wpc = "start"
    /\ written = <<>>
    /\ now = ClockAt(0)
    /\ writtenAt = <<>>

\* ------------------------------------------------------- clone predicates
MaxSpeed == 6           \* largest target speed and observed speed

\* low.Queue.GetQueueCount: the occupancy of a ring
GetQueueCount(q) == Len(q)

\* generateCheck: the generator wants a clone while the speed the scheduler
\* observed is below its target
generateCheck(target, speedPKTS) == speedPKTS < target

\* a predicate that asks for a clone already at the threshold
handleCheckAtThreshold(q, speedPKTS) == GetQueueCount(q) >= maxPacketsToClone
\* handleCheck: the handler wants a clone when its input ring holds more
\* than maxPacketsToClone packets
handleCheck(q, speedPKTS) == GetQueueCount(q) > maxPacketsToClone

\* separateCheck
separateCheck(q, speedPKTS) == GetQueueCount(q) > maxPacketsToClone

\* splitCheck
splitCheck(q, speedPKTS) == GetQueueCount(q) > maxPacketsToClone

\* the predicate registered with the flow function (NewClonableFlowFunction)
Check(q, speedPKTS) ==
    CASE rkind = "generatePerf" -> generateCheck(gpTargetSpeed, speedPKTS)
      [] rkind = "handle" -> handleCheck(q, speedPKTS)
      [] rkind = "separate" -> separateCheck(q, speedPKTS)
      [] rkind = "split" -> splitCheck(q, speedPKTS)

\* a ring that holds n packets
RingOf(n) == [i \in 1 .. n |-> 0]

\* the scheduler evaluates the predicate with the speed it observed, while
\* the input ring holds n packets; the predicate only reads
CloneCheck(speedPKTS, n) ==
    /\ lastCheck' = [speed |-> speedPKTS, count |-> n,
                     result |-> Check(RingOf(n), speedPKTS)]
    /\ UNCHANGED <<gpTargetSpeed, initVars, fileVars, cloneVars, cksumVars>>
    /\ UNCHANGED <<runVars, buildVars, replVars>>

\* handle, one iteration of the default branch run by replica t on its own
\* burst array: every replica dequeues from the one input ring of the flow
\* function and safeEnqueues to its one output ring
handleReplica(t) ==
    /\ kind = "handler"
    /\ t \in DOMAIN cloneBufs
    /\ pc[t] = "loop"
    /\ LET n == DequeueBurst(rings[InRing], burstSize)
           b == Fill(cloneBufs[t], SubSeq(rings[InRing], 1, n))
       IN /\ n # 0
          /\ rings' = [rings EXCEPT ![InRing] = SubSeq(@, n + 1, Len(@))]
          /\ cloneBufs' = [cloneBufs EXCEPT ![t] = b]
          /\ calls' = [calls EXCEPT ![t] = <<Call(OutRing(0), b, n, 0)>>]
          /\ deq' = [deq EXCEPT ![t] = @ + n]
          /\ lastBurst' = Slice(b, 0, n)
          /\ lastRes' = <<>>
          /\ handed' = calls'[t]
    /\ pc' = [pc EXCEPT ![t] = "enqueue"]
    /\ UNCHANGED <<pool, Dropped, confVars, done, done2, tmp, stageVars,
                   generated, acc, shed, refused, placed>>
    /\ UNCHANGED <<buildVars, replVars, initVars, schedVars, fileVars, cksumVars>>

\* the scheduler's control action on a handler in the pipeline: when
\* handleCheck is true for the input ring and a core is free it starts a
\* second replica of handle with the same parameters
CloneStage(speedPKTS) ==
    /\ rkind = "handle"
    /\ "clone" \notin DOMAIN cloneBufs
    /\ Check(rings[InRing], speedPKTS)
    /\ cloneBufs' = cloneBufs @@ ("clone" :> Array(burstSize))
    /\ pc' = pc @@ ("clone" :> "loop")
    /\ calls' = calls @@ ("clone" :> <<>>)
    /\ done' = done @@ ("clone" :> 0)
    /\ done2' = done2 @@ ("clone" :> 0)
    /\ tmp' = tmp @@ ("clone" :> 0)
    /\ deq' = deq @@ ("clone" :> 0)
    /\ acc' = acc @@ ("clone" :> 0)
    /\ shed' = shed @@ ("clone" :> 0)
    /\ placed' = placed @@ ("clone" :>
                     [data |-> <<>>, ring |-> <<>>, stop |-> <<>>,
                      direct |-> <<>>, calledStop |-> FALSE,
                      calledDirect |-> FALSE])
    /\ UNCHANGED <<rings, pool, Dropped, confVars, stageVars, generated,
                   refused, histVars>>
    /\ UNCHANGED <<buildVars, replVars, initVars, schedVars, fileVars, cksumVars>>

MaxClones == 1          \* replicas the scheduler adds in one behaviour

\* default of generatePerf, first half: the replica enters
\* low.AllocateMbufs(bufs, mempool) on the mempool of its flow function;
\* nothing in generatePerf waits for another replica before it
GenAllocate(r) ==
    /\ rkind = "generatePerf"
    /\ rpc[r] = "select"
    /\ stopper[r] = <<>>
    /\ processed[r] + burstSize <= MaxProcessed
    /\ rpc' = [rpc EXCEPT ![r] = "alloc"]
    /\ UNCHANGED <<rkind, pause, currentSpeed, stopper, report, schedRunning,
                   processed, published>>
    /\ UNCHANGED <<runVars, buildVars, extVars>>

\* default of generatePerf, second half: the allocation has returned; the
\* user function fills the packets, safeEnqueue passes them on and the
\* burst is counted
GenEnqueue(r) ==
    /\ rpc[r] = "alloc"
    /\ rpc' = [rpc EXCEPT ![r] = "select"]
    /\ currentSpeed' = [currentSpeed EXCEPT ![r] = @ + burstSize]
    /\ processed' = [processed EXCEPT ![r] = @ + burstSize]
    /\ UNCHANGED <<rkind, pause, stopper, report, schedRunning, published>>
    /\ UNCHANGED <<runVars, buildVars, extVars>>

\* the scheduler's control action: when the predicate of the flow function
\* is true for the speed it observed and a core is free, it starts one more
\* replica with the same parameters and a stop channel of its own
Clone(speedPKTS, n) ==
    /\ schedRunning
    /\ Cardinality(DOMAIN rpc) < NumReplicas + MaxClones
    /\ Check(RingOf(n), speedPKTS)
    /\ LET r == Cardinality(DOMAIN rpc) + 1
       IN /\ rpc' = rpc @@ (r :> "select")
          /\ pause' = pause @@ (r :> 0)
          /\ currentSpeed' = currentSpeed @@ (r :> 0)
          /\ stopper' = stopper @@ (r :> <<>>)
          /\ processed' = processed @@ (r :> 0)
          /\ published' = published @@ (r :> 0)
    /\ UNCHANGED <<rkind, report, schedRunning>>
    /\ UNCHANGED <<runVars, buildVars, extVars>>

\* the k-th (from 0) of the free buffers of the mempool, lowest number first
LowestFree(p, k) ==
    CHOOSE h \in Handles :
        /\ p[h] > 0
        /\ Cardinality({g \in Handles : p[g] > 0 /\ g < h}) = k

\* default of generatePerf with its output ring, up to the call of
\* safeEnqueue: low.AllocateMbufs fills bufs with burstSize buffers of the
\* mempool, the user function fills every packet, and the whole array is
\* passed to safeEnqueue with number = burstSize
generatePerf(r) ==
    /\ rkind = "generatePerf"
    /\ rpc[r] = "select"
    /\ stopper[r] = <<>>
    /\ pc["generator"] = "loop"
    /\ generated + burstSize <= MaxGenerated
    /\ Cardinality({h \in Handles : pool[h] > 0}) >= burstSize
    /\ LET bufs == [i \in 0 .. (burstSize - 1) |-> LowestFree(pool, i)]
       IN /\ pool' = [h \in Handles |->
                         IF \E i \in DOMAIN bufs : bufs[i] = h THEN pool[h] - 1
                                                                ELSE pool[h]]
          /\ calls' = [calls EXCEPT !["generator"] =
                          <<Call(InRing, bufs, burstSize, 0)>>]
    /\ pc' = [pc EXCEPT !["generator"] = "enqueue"]
    /\ generated' = generated + burstSize
    /\ deq' = [deq EXCEPT !["generator"] = @ + burstSize]
    /\ rpc' = [rpc EXCEPT ![r] = "alloc"]
    /\ UNCHANGED <<rings, Dropped, confVars, done, done2, tmp, stageVars,
                   acc, shed, refused, histVars, placed>>
    /\ UNCHANGED <<rkind, pause, currentSpeed, stopper, report, schedRunning,
                   processed, published>>
    /\ UNCHANGED <<buildVars, extVars>>

\* a counter that counts what the output ring accepted
generatePerfSpeedAccepted(r) ==
    /\ rkind = "generatePerf"
    /\ rpc[r] = "alloc"
    /\ pc["generator"] = "loop"
    /\ currentSpeed' = [currentSpeed EXCEPT ![r] = @ + done["generator"]]
    /\ processed' = [processed EXCEPT ![r] = @ + burstSize]
    /\ rpc' = [rpc EXCEPT ![r] = "select"]
    /\ UNCHANGED <<rkind, pause, stopper, report, schedRunning, published>>
    /\ UNCHANGED <<runVars, buildVars, extVars>>

\* default of generatePerf after safeEnqueue has returned:
\* currentSpeed = currentSpeed + uint64(burstSize)
generatePerfSpeed(r) ==
    /\ rkind = "generatePerf"
    /\ rpc[r] = "alloc"
    /\ pc["generator"] = "loop"
    /\ currentSpeed' = [currentSpeed EXCEPT ![r] = @ + burstSize]
    /\ processed' = [processed EXCEPT ![r] = @ + burstSize]
    /\ rpc' = [rpc EXCEPT ![r] = "select"]
    /\ UNCHANGED <<rkind, pause, stopper, report, schedRunning, published>>
    /\ UNCHANGED <<runVars, buildVars, extVars>>

\* -------------------------------------------------------- reduceChecksum
MaxSample == 2          \* halves up to MaxSample from 0, 0x8000 and 0xffff
\* a uint32 as [hi, lo], its value being hi * 2^16 + lo, both in 0 .. 0xffff
Uint32(hi, lo) == [hi |-> hi, lo |-> lo]
\* the halves the arguments are made of: the values around the ends and the
\* middle of the 16-bit range
Halves ==
    (0 .. MaxSample) \cup {32768 - i : i \in 0 .. MaxSample}
                     \cup {65535 - i : i \in 0 .. MaxSample}

\* a loop body that keeps the low half and drops the carries
FoldNoCarry(s) == Uint32(0, s.lo)
\* (sum >> 16) + (sum & 0xffff): the sum of two numbers below 2^16 is below
\* 2^17, so the uint32 addition does not wrap
Fold(s) == Uint32((s.hi + s.lo) \div 65536, (s.hi + s.lo) % 65536)

\* reduceChecksum is called with the argument s
reduceChecksumCall(s) ==
    /\ cpc = "idle"
    /\ sum' = s
    /\ argument' = s
    /\ folds' = 0
    /\ cpc' = "loop"
    /\ UNCHANGED result
    /\ UNCHANGED <<runVars, buildVars, replVars, initVars, schedVars,
                   fileVars, cloneVars>>

\* for sum > 0xffff { sum = (sum >> 16) + (sum & 0xffff) }; return uint16(sum)
reduceChecksum ==
    /\ cpc = "loop"
    /\ IF sum.hi > 0
       THEN /\ sum' = Fold(sum)
            /\ folds' = folds + 1
            /\ UNCHANGED <<cpc, result>>
       ELSE /\ result' = sum.lo
            /\ cpc' = "return"
            /\ UNCHANGED <<sum, folds>>
    /\ UNCHANGED argument
    /\ UNCHANGED <<runVars, buildVars, replVars, initVars, schedVars,
                   fileVars, cloneVars>>

\* no checksum is being computed
InitCksumIdle ==
    /\ sum = Uint32(0, 0)
    /\ cpc = "idle"
    /\ argument = Uint32(0, 0)
    /\ result = 0
    /\ folds = 0

\* no predicate is evaluated
InitSchedIdle ==
    /\ gpTargetSpeed = 0
    /\ lastCheck = [speed |-> 0, count |-> 0, result |-> FALSE]

\* the variables outside the flow functions, the builder and the replicas,
\* as they are when their part of the program does not run
InitExt == InitSchedIdle /\ InitFileIdle /\ cloneBufs = <<>> /\ InitCksumIdle

\* ---------------------------------------------------------- specification
InitRun ==
    /\ rings = [r \in Rings |-> <<>>]
    /\ pool = [h \in Handles |-> 1]
    /\ Dropped = 0
    /\ kind \in Kinds
    /\ vector \in (IF kind \in {"handler", "separator"} THEN BOOLEAN ELSE {FALSE})
    /\ N \in (IF kind = "partitioner" THEN 0 .. MaxNM ELSE {0})
    /\ M \in (IF kind = "partitioner" THEN 0 .. MaxNM ELSE {0})
    /\ flowNumber \in (IF kind = "splitter" THEN 1 .. MaxFlowNumber ELSE {0})
    /\ pc = [t \in Workers |-> "loop"]
    /\ calls = [t \in Workers |-> <<>>]
    /\ done = [t \in Workers |-> 0]
    /\ done2 = [t \in Workers |-> 0]
    /\ tmp = [t \in Workers |-> 0]
    /\ bufsIn = Array(burstSize)
    /\ bufsTrue = Array(burstSize)
    /\ bufsFalse = Array(burstSize)
    /\ ttt = [i \in 0 .. (burstSize - 1) |-> FALSE]
    /\ bufsFirst = Array(burstSize)
    /\ bufsSecond = Array(burstSize)
    /\ currentPacketNumber = 0
    /\ sw = TRUE
    /\ OutputMbufs = [index \in 0 .. (flowNumber - 1) |-> Array(burstSize)]
    /\ countOfPackets = [index \in 0 .. (flowNumber - 1) |-> 0]
    /\ generated = 0
    /\ deq = [t \in Workers |-> 0]
    /\ acc = [t \in Workers |-> 0]
    /\ shed = [t \in Workers |-> 0]
    /\ refused = 0
    /\ lastBurst = <<>>
    /\ lastRes = <<>>
    /\ handed = <<>>
    /\ placed = [t \in Workers |->
                   [data |-> <<>>, ring |-> <<>>, stop |-> <<>>, direct |-> <<>>,
                    calledStop |-> FALSE, calledDirect |-> FALSE]]

Next ==
    \/ \E t \in Workers : safeEnqueue(t)
    \/ generateOne
    \/ handle
    \/ separate
    \/ partition
    \/ split
    \/ send
    \/ StopDrain

\* the running pipeline; the construction state stays as SystemInit left it
Init ==
    /\ InitRun
    /\ InitBuild
    /\ InitConfig
    /\ InitExt
    /\ \A p \in DOMAIN createdPorts : createdPorts[p].config = inactivePort
    /\ InitReplica
    /\ rkind = "handle"

\* construction of a graph: no flow function runs yet
InitBuildRun ==
    /\ InitBuild
    /\ InitConfig
    /\ InitExt
    /\ InitRun
    /\ kind = "handler"
    /\ vector = FALSE
    /\ InitReplica
    /\ rkind = "handle"

Spec == Init /\ [][Next]_vars

\* graph construction; nothing runs before SystemStart
NextBuild ==
    \/ \E In \in DOMAIN flows : SetWriter(In)
    \/ \E repcount \in {1} : SetReader(repcount)
    \/ \E port \in 0 .. NumPorts : SetReceiver(port)
    \/ \E f \in Prototypes, targetSpeed \in 0 .. 1 : SetGenerator(f, targetSpeed)
    \/ \E In \in DOMAIN flows, port \in 0 .. NumPorts : SetSender(In, port)
    \/ \E In \in DOMAIN flows, n \in {0, MaxNM}, m \in {0, MaxNM} :
         SetPartitioner(In, n, m)
    \/ \E In \in DOMAIN flows, f \in Prototypes : SetSeparator(In, f)
    \/ \E In \in DOMAIN flows, fn \in 0 .. MaxFlowNumber : SetSplitter(In, fn)
    \/ \E In \in DOMAIN flows : SetStopper(In)
    \/ \E In \in DOMAIN flows, f \in Prototypes : SetHandler(In, f)
    \/ \E k \in 0 .. MaxMerge : \E InArray \in [1 .. k -> DOMAIN flows] :
         SetMerger(InArray)
    \/ SystemStart

SpecBuild == InitBuildRun /\ [][NextBuild]_vars

\* the replicas of one flow function and the scheduler; the graph and the
\* rings stay as construction left them
InitReplicaRun ==
    /\ InitRun
    /\ kind = "handler"
    /\ vector = FALSE
    /\ InitBuild
    /\ InitConfig
    /\ InitExt
    /\ \A p \in DOMAIN createdPorts : createdPorts[p].config = inactivePort
    /\ InitReplica

NextReplica ==
    \/ \E r \in Replicas : StopperReceive(r)
    \/ \E r \in Replicas : Tick(r)
    \/ \E r \in Replicas : Publish(r)
    \/ \E r \in Replicas, n \in 0 .. burstSize : Work(r, n)
    \/ \E r \in Replicas : Wake(r)
    \/ \E r \in Replicas, v \in {-1} \cup PauseValues : SendStopper(r, v)
    \/ ReadReport
    \/ Shutdown

SpecReplica == InitReplicaRun /\ [][NextReplica]_vars

\* every replica runs on a core of its own and select picks among its ready
\* cases at random; the scheduler's loop reads the report channel while it
\* runs
FairReplica ==
    /\ \A r \in Replicas :
         /\ SF_vars(StopperReceive(r))
         /\ WF_vars(Publish(r))
         /\ WF_vars(Wake(r))
    /\ WF_vars(ReadReport)

SpecReplicaFair == SpecReplica /\ FairReplica

\* SystemInit alone, from the process start: the Config fields are drawn
\* from 0 .. MaxConfig, 0 standing for 'not set'
InitSystem ==
    /\ InitRun
    /\ kind = "handler"
    /\ vector = FALSE
    /\ InitProcess
    /\ InitExt
    /\ InitReplica
    /\ rkind = "handle"

NextInit ==
    \E rs \in 0 .. MaxConfig, bs \in 0 .. MaxConfig :
        SystemInit([RingSize |-> rs, BurstSize |-> bs])

SpecInit == InitSystem /\ [][NextInit]_vars

\* the clone predicates alone: the flow function and the generator's target
\* are drawn at the start, the observed speed and the occupancy at each
\* evaluation
InitCheck ==
    /\ InitRun
    /\ kind = "handler"
    /\ vector = FALSE
    /\ InitBuild
    /\ \A p \in DOMAIN createdPorts : createdPorts[p].config = inactivePort
    /\ InitConfig
    /\ InitLoop
    /\ rkind \in {"generatePerf", "handle", "separate", "split"}
    /\ gpTargetSpeed \in (IF rkind = "generatePerf" THEN 1 .. MaxSpeed ELSE {0})
    /\ InitFileIdle
    /\ cloneBufs = <<>>
    /\ InitCksumIdle
    /\ lastCheck = [speed |-> 0, count |-> 0, result |-> FALSE]

NextCheck ==
    \E speedPKTS \in 0 .. MaxSpeed, n \in 0 .. RingSize :
        CloneCheck(speedPKTS, n)

SpecCheck == InitCheck /\ [][NextCheck]_vars

\* the replicas of one fast generator: the scheduler adds replicas while
\* the generator is below its target and retires them with -1
InitSched ==
    /\ InitRun
    /\ kind = "handler"
    /\ vector = FALSE
    /\ InitBuild
    /\ \A p \in DOMAIN createdPorts : createdPorts[p].config = inactivePort
    /\ InitConfig
    /\ InitLoop
    /\ rkind = "generatePerf"
    /\ gpTargetSpeed \in {1, MaxSpeed}
    /\ InitFileIdle
    /\ cloneBufs = <<>>
    /\ InitCksumIdle
    /\ lastCheck = [speed |-> 0, count |-> 0, result |-> FALSE]

NextSched ==
    \/ \E r \in DOMAIN rpc : StopperReceive(r)
    \/ \E r \in DOMAIN rpc : Tick(r)
    \/ \E r \in DOMAIN rpc : Publish(r)
    \/ \E r \in DOMAIN rpc : GenAllocate(r)
    \/ \E r \in DOMAIN rpc : GenEnqueue(r)
    \/ \E r \in DOMAIN rpc : SendStopper(r, -1)
    \/ ReadReport
    \/ \E speedPKTS \in 0 .. MaxSpeed : Clone(speedPKTS, 0)

SpecSched == InitSched /\ [][NextSched]_vars

\* record i of the reader's file: its length depends on i, its bytes are i
FileRecord(i) == [j \in 1 .. (((i - 1) % MaxLen) + 1) |-> i]

\* a producer, the ring it fills and the writer that empties it: the
\* producer is generateOne or read with a file of up to MaxRecords records
InitFile ==
    /\ rings = [r \in Rings |-> <<>>]
    /\ pool = [h \in Handles |-> 1]
    /\ Dropped = 0
    /\ kind = "handler"
    /\ vector = FALSE
    /\ N = 0
    /\ M = 0
    /\ flowNumber = 0
    /\ \E producer \in {"generator", "reader"} :
         /\ pc = [t \in {producer} |-> "loop"]
         /\ calls = [t \in {producer} |-> <<>>]
         /\ done = [t \in {producer} |-> 0]
         /\ done2 = [t \in {producer} |-> 0]
         /\ tmp = [t \in {producer} |-> 0]
         /\ deq = [t \in {producer} |-> 0]
         /\ acc = [t \in {producer} |-> 0]
         /\ shed = [t \in {producer} |-> 0]
         /\ placed = [t \in {producer} |->
                        [data |-> <<>>, ring |-> <<>>, stop |-> <<>>,
                         direct |-> <<>>, calledStop |-> FALSE,
                         calledDirect |-> FALSE]]
         /\ inFile \in (IF producer = "reader"
                         THEN {[i \in 1 .. P |-> FileRecord(i)] :
                                 P \in 0 .. MaxRecords}
                         ELSE {<<>>})
         /\ rpRepcount \in (IF producer = "reader" THEN -1 .. MaxRepcount
                                                    ELSE {0})
    /\ bufsIn = Array(burstSize)
    /\ bufsTrue = Array(burstSize)
    /\ bufsFalse = Array(burstSize)
    /\ ttt = [i \in 0 .. (burstSize - 1) |-> FALSE]
    /\ bufsFirst = Array(burstSize)
    /\ bufsSecond = Array(burstSize)
    /\ currentPacketNumber = 0
    /\ sw = TRUE
    /\ OutputMbufs = <<>>
    /\ countOfPackets = <<>>
    /\ generated = 0
    /\ refused = 0
    /\ lastBurst = <<>>
    /\ lastRes = <<>>
    /\ handed = <<>>
    /\ InitBuild
    /\ \A p \in DOMAIN createdPorts : createdPorts[p].config = inactivePort
    /\ InitConfig
    /\ InitReplica
    /\ rkind = "handle"
    /\ InitSchedIdle
    /\ cloneBufs = <<>>
    /\ InitCksumIdle
    /\ mbuf = [h \in Handles |-> <<>>]
    /\ count = 0
    /\ fpos = 1
    /\ readHanded = <<>>
    /\ outFile = <<>>
    /\ wpc = "start"
    /\ written = <<>>
    /\ now \in Times
    /\ writtenAt = <<>>

NextFile ==
    \/ \E t \in DOMAIN pc : safeEnqueue(t)
    \/ generateOnePacket
    \/ read
    \/ WriteOpen
    \/ write
    \/ StopDrain

SpecFile == InitFile /\ [][NextFile]_vars

\* generateOne, a ring, a handler whose replicas the scheduler may double
\* and the output ring of the handler
InitOrder ==
    /\ InitRun
    /\ kind = "handler"
    /\ vector = FALSE
    /\ InitBuild
    /\ \A p \in DOMAIN createdPorts : createdPorts[p].config = inactivePort
    /\ InitConfig
    /\ InitReplica
    /\ rkind = "handle"
    /\ InitSchedIdle
    /\ InitFileIdle
    /\ cloneBufs = [t \in {"stage"} |-> Array(burstSize)]
    /\ InitCksumIdle

NextOrder ==
    \/ \E t \in DOMAIN pc : safeEnqueue(t)
    \/ generateOnePacket
    \/ \E t \in DOMAIN cloneBufs : handleReplica(t)
    \/ CloneStage(0)

SpecOrder == InitOrder /\ [][NextOrder]_vars

\* a fast generator, the ring it fills and a writer that takes the packets
\* one by one, with the generator's stop, tick and report channels.  The
\* stop ring takes every handle the output ring refuses (PerfStopRingTakes):
\* two bursts and the NumBufs buffers never fill both rings, so safeEnqueue
\* does not come to low.DirectStop here
InitPerf ==
    /\ InitRun
    /\ kind = "handler"
    /\ vector = FALSE
    /\ InitBuild
    /\ \A p \in DOMAIN createdPorts : createdPorts[p].config = inactivePort
    /\ InitConfig
    /\ InitLoop
    /\ rkind = "generatePerf"
    /\ InitExt

NextPerf ==
    \/ \E r \in Replicas : generatePerf(r)
    \/ SafeEnqueuePlace("generator")
    \/ DroppedLoad("generator")
    \/ DroppedStore("generator")
    \/ SafeEnqueueStop("generator")
    \/ \E r \in Replicas : generatePerfSpeed(r)
    \/ \E r \in Replicas : StopperReceive(r)
    \/ \E r \in Replicas : Tick(r)
    \/ \E r \in Replicas : Publish(r)
    \/ \E r \in Replicas : SendStopper(r, -1)
    \/ ReadReport
    \/ WriteOpen
    \/ write
    \/ StopDrain

SpecPerf == InitPerf /\ [][NextPerf]_vars

\* in SpecPerf safeEnqueue never has handles left for low.DirectStop
PerfStopRingTakes == pc["generator"] # "direct"

\* the select loop of one replica of a handler, separator or splitter
\* around its iterations on the rings: the replica is back at its select
\* when safeEnqueue has returned for every call of the iteration.  The
\* burst arrays are local to the goroutine of a replica; the arrays and the
\* position of the stage are those of the replica StageReplica, and a
\* further replica, with arrays of its own, stays at its select
StageReplica == 1
StageKind == [handler |-> "handle", separator |-> "separate", splitter |-> "split"]

\* default: one iteration starts; select takes it only when no value waits
\* on the stop channel
StageDefault(r) ==
    /\ rpc[r] = "select"
    /\ stopper[r] = <<>>
    /\ \/ handle
       \/ separate
       \/ split

\* a replica that takes a stop signal wherever it is in its iteration
StageStopAnywhere(r) == StopperReceive(r)
\* case pause = <-stopper, taken at the select only
StageStop(r) == pc["stage"] = "loop" /\ StopperReceive(r)

\* case <-tick, taken at the select only
StageTick(r) == pc["stage"] = "loop" /\ Tick(r)

InitRetire ==
    /\ InitRun
    /\ kind \in {"handler", "separator", "splitter"}
    /\ vector = FALSE
    /\ InitBuild
    /\ \A p \in DOMAIN createdPorts : createdPorts[p].config = inactivePort
    /\ InitConfig
    /\ InitLoop
    /\ rkind = StageKind[kind]
    /\ InitExt

NextRetire ==
    \/ generateOne
    \/ \E t \in Workers : safeEnqueue(t)
    \/ StageDefault(StageReplica)
    \/ StageStop(StageReplica)
    \/ StageTick(StageReplica)
    \/ Publish(StageReplica)
    \/ SendStopper(StageReplica, -1)
    \/ ReadReport
    \/ StopDrain

SpecRetire == InitRetire /\ [][NextRetire]_vars

\* reduceChecksum alone, called once with an argument made of two Halves;
\* the function runs to its end once it is called
InitCksum ==
    /\ InitRun
    /\ kind = "handler"
    /\ vector = FALSE
    /\ InitBuild
    /\ \A p \in DOMAIN createdPorts : createdPorts[p].config = inactivePort
    /\ InitConfig
    /\ InitReplica
    /\ rkind = "handle"
    /\ InitExt

NextCksum ==
    \/ \E hi \in Halves, lo \in Halves : reduceChecksumCall(Uint32(hi, lo))
    \/ reduceChecksum

SpecCksum == InitCksum /\ [][NextCksum]_vars /\ WF_vars(NextCksum)


\* ------------------------------------------------------------ properties
\* the handles of a worker's unfinished calls that no ring and no free list
\* has taken yet
Unplaced(t) ==
    IF calls[t] = <<>> THEN <<>>
    ELSE LET c == Head(calls[t])
             from == CASE pc[t] = "enqueue" -> 0
                       [] pc[t] = "direct" -> done[t] + done2[t]
                       [] OTHER -> done[t]
         IN Slice(c.data, from, c.number)

RECURSIVE Pending(_)
\* the handles of the calls in cs, none of which has begun
Pending(cs) ==
    IF cs = <<>> THEN <<>>
    ELSE Slice(Head(cs).data, 0, Head(cs).number) \o Pending(Tail(cs))

\* the handles in the worker's local burst arrays
InFlight(t) ==
    IF calls[t] = <<>> THEN <<>> ELSE Unplaced(t) \o Pending(Tail(calls[t]))

RECURSIVE InRings(_, _)
\* the number of times h is in the rings 1..r
InRings(h, r) ==
    IF r = 0 THEN 0 ELSE Occurrences(rings[r], h) + InRings(h, r - 1)

RECURSIVE SubseqAt(_, _)
\* the elements of s at the positions in I, in the order of s
SubseqAt(s, I) ==
    IF s = <<>> THEN <<>>
    ELSE SubseqAt(SubSeq(s, 1, Len(s) - 1), I)
         \o (IF Len(s) \in I THEN <<s[Len(s)]>> ELSE <<>>)

\* the handles the stage's last burst passed to safeEnqueue for output j
HandedCalls(j) == {k \in DOMAIN handed : handed[k].place = OutRing(j)}
HandedTo(j) ==
    IF HandedCalls(j) = {} THEN <<>>
    ELSE LET c == handed[CHOOSE k \in HandedCalls(j) : TRUE]
         IN Slice(c.data, 0, c.number)

\* C1: for a Handle, Separate or Split stage, the handles dequeued from the
\* input ring are as many as those its output rings accepted plus those shed
\* into the stop ring or by direct stop plus those still in its burst arrays
C1_Conservation ==
    kind \in {"handler", "separator", "splitter"} =>
        deq["stage"] = acc["stage"] + shed["stage"] + Len(InFlight("stage"))

C1_Witness ==
    /\ kind = "separator"
    /\ acc["stage"] > 0
    /\ shed["stage"] > 0
    /\ Len(InFlight("stage")) > 0

\* C2: every handle is in exactly one place: one slot of one ring (the stop
\* ring included), the mempool free list (where direct stop puts it), or a
\* worker's burst array; and one burst never hands a handle to two outputs
C2_Ownership ==
    /\ \A h \in Handles :
         pool[h] + InRings(h, 2 + NumOuts)
           + Occurrences(InFlight("generator"), h)
           + Occurrences(InFlight("stage"), h) = 1
    /\ \A h \in Handles : Occurrences(Pending(handed), h) <= 1

C2_Witness ==
    /\ kind = "partitioner"
    /\ rings[StopRing] # <<>>
    /\ rings[OutRing(0)] # <<>>
    /\ rings[OutRing(1)] # <<>>
    /\ InFlight("stage") # <<>>
    /\ placed["stage"].stop # <<>>

\* C3: safeEnqueue puts the first done handles into the output ring, the
\* next done2 into the stop ring and frees the rest by direct stop; it calls
\* direct stop only when the stop ring refused some, and no step of it waits
C3_SafeEnqueue ==
    \A t \in Workers :
        LET p == placed[t]
        IN /\ pc[t] \in {"loop", "enqueue"} =>
                /\ p.ring \o p.stop \o p.direct = p.data
                /\ p.calledStop = (Len(p.ring) < Len(p.data))
                /\ p.calledDirect = (Len(p.ring) + Len(p.stop) < Len(p.data))
           /\ pc[t] # "loop" => ENABLED safeEnqueue(t)

C3_Witness ==
    /\ pc["stage"] = "loop"
    /\ Len(placed["stage"].data) = 2
    /\ placed["stage"].stop # <<>>
    /\ placed["stage"].direct # <<>>

\* C4: whenever no safeEnqueue call is in progress, Dropped is the number of
\* handles the output rings have refused so far
C4_DroppedExact ==
    (\A t \in Workers : pc[t] \in {"loop", "enqueue"}) => Dropped = refused

\* C5: the Dropped counter never decreases
C5_DroppedMonotonic == [][Dropped' >= Dropped]_vars

\* C6: no ring, the stop ring included, ever holds more handles than its
\* capacity, and an enqueue on a full ring accepts nothing and leaves the
\* ring as it was
C6_RingBounds ==
    /\ [](\A r \in Rings : Len(rings[r]) >= 0 /\ Len(rings[r]) <= RingSize)
    /\ [][\A t \in Workers :
            /\ (pc[t] = "enqueue" /\ pc'[t] = "load"
                  /\ Len(rings[Head(calls[t]).place]) = RingSize)
               => (done'[t] = 0 /\ rings' = rings)
            /\ (pc[t] = "stop" /\ pc'[t] = "direct"
                  /\ Len(rings[StopRing]) = RingSize)
               => (done2'[t] = 0 /\ rings' = rings)]_vars

C6_Witness ==
    /\ pc["generator"] = "direct"
    /\ done["generator"] = 0
    /\ done2["generator"] = 0
    /\ Len(rings[InRing]) = RingSize
    /\ Len(rings[StopRing]) = RingSize

\* the positions in the last burst whose position in the whole input stream
\* falls on the first side of the N, M pattern
FirstSide ==
    LET start == deq["stage"] - Len(lastBurst)
    IN {k \in 1 .. Len(lastBurst) : (start + k - 1) % (N + M) < N}

\* C7: a Partition stage with N >= 1 and M >= 1 hands the packet at position
\* i of its input stream to the first output if i mod (N+M) < N and to the
\* second otherwise, each output in input order, however the stream is cut
\* into bursts
C7_Partition ==
    (kind = "partitioner" /\ N >= 1 /\ M >= 1) =>
        /\ HandedTo(0) = SubseqAt(lastBurst, FirstSide)
        /\ HandedTo(1) = SubseqAt(lastBurst, (1 .. Len(lastBurst)) \ FirstSide)
        /\ sw = (deq["stage"] % (N + M) < N)
        /\ currentPacketNumber =
             IF sw THEN deq["stage"] % (N + M) ELSE (deq["stage"] % (N + M)) - N

C7_Witness ==
    /\ kind = "partitioner"
    /\ N = 1
    /\ M = 1
    /\ deq["stage"] = 5
    /\ Len(lastBurst) = 2
    /\ Len(HandedTo(0)) = 1
    /\ Len(HandedTo(1)) = 1
    /\ HandedTo(1) = <<lastBurst[1]>>

\* C8: no Partition stage with N = 0 or M = 0 is ever registered with the
\* scheduler or started
C8_NoZeroBound ==
    \A i \in DOMAIN UnClonable :
        UnClonable[i].Name = "partitioner" =>
            (UnClonable[i].Parameters.N >= 1 /\ UnClonable[i].Parameters.M >= 1)

\* C9: a Separate stage, scalar or vector, hands exactly the packets of a
\* burst whose result is true to the true output and exactly the others to
\* the false output, each in burst order; the two counts add up to n
C9_Separate ==
    kind = "separator" =>
        LET T == {k \in 1 .. Len(lastBurst) : lastRes[k] = TRUE}
        IN /\ HandedTo(0) = SubseqAt(lastBurst, T)
           /\ HandedTo(1) = SubseqAt(lastBurst, (1 .. Len(lastBurst)) \ T)
           /\ Len(HandedTo(0)) + Len(HandedTo(1)) = Len(lastBurst)

C9_Witness ==
    /\ kind = "separator"
    /\ vector
    /\ lastRes = <<FALSE, TRUE>>
    /\ HandedTo(0) = <<lastBurst[2]>>
    /\ HandedTo(1) = <<lastBurst[1]>>
    /\ deq["stage"] > 2

\* C10: a Split stage hands every packet of a burst to the output its result
\* names and to no other, each output in burst order, and the per-output
\* counts are 0 again once the burst is enqueued, so that no handle of an
\* earlier burst is handed over again
C10_Split ==
    kind = "splitter" =>
        /\ \A j \in 0 .. (flowNumber - 1) :
             HandedTo(j) =
               SubseqAt(lastBurst, {k \in 1 .. Len(lastBurst) : lastRes[k] = j})
        /\ Len(Pending(handed)) = Len(lastBurst)
        /\ pc["stage"] = "loop" =>
             \A j \in 0 .. (flowNumber - 1) : countOfPackets[j] = 0

C10_Witness ==
    /\ kind = "splitter"
    /\ flowNumber = 2
    /\ pc["stage"] = "loop"
    /\ deq["stage"] = 4
    /\ lastRes = <<1, 0>>
    /\ HandedTo(0) = <<lastBurst[2]>>
    /\ HandedTo(1) = <<lastBurst[1]>>

\* every registered flow function, unclonable ones first
Stages == UnClonable \o Clonable

\* the rings a flow function writes to, by the type of its parameters
OutRings(par) ==
    CASE par.type \in {"receiveParameters", "generateParameters",
                       "handleParameters", "readParameters"} -> {par.out}
      [] par.type = "partitionParameters" -> {par.outFirst, par.outSecond}
      [] par.type = "separateParameters" -> {par.outTrue, par.outFalse}
      [] par.type = "splitParameters" -> {par.outs[j] : j \in DOMAIN par.outs}
      [] OTHER -> {}

\* the rings a flow function reads from
InRings1(par) ==
    IF par.type \in {"sendParameters", "writeParameters", "partitionParameters",
                     "separateParameters", "splitParameters", "handleParameters"}
    THEN {par.in} ELSE {}

Producers(r) == {i \in DOMAIN Stages : r \in OutRings(Stages[i].Parameters)}
Consumers(r) == {i \in DOMAIN Stages : r \in InRings1(Stages[i].Parameters)}

\* the rings of the graph: those some flow function reads or writes, but for
\* the stop ring, which the scheduler's stop routine drains
GraphRings ==
    UNION {OutRings(Stages[i].Parameters) \cup InRings1(Stages[i].Parameters) :
             i \in DOMAIN Stages} \ {StopRing}

OpenFlows == {f \in DOMAIN flows : flows[f] # Nil}

\* C11: SetSplitter with flowNumber = 0 reports a construction error, and no
\* splitter with zero outputs is ever registered
C11_NoEmptySplitter ==
    /\ \A i \in DOMAIN Clonable :
         Clonable[i].Name = "splitter" => Clonable[i].Parameters.flowNumber >= 1
    /\ (lastCall.op = "SetSplitter" /\ lastCall.arg = <<0>>)
         => lastCall.err # "none"

\* C12: no registered flow function of any kind writes to a ring that
\* SetMerger or SetStopper has merged away
C12_MergeRewrite ==
    \A i \in DOMAIN Stages : OutRings(Stages[i].Parameters) \cap merged = {}

\* C13: in a graph that passed the checks of SystemStart every ring has
\* exactly one producer and exactly one consumer
C13_OneProducerOneConsumer ==
    phase = "running" =>
        \A r \in GraphRings :
            Cardinality(Producers(r)) = 1 /\ Cardinality(Consumers(r)) = 1

\* C14: while no builder call has reported an error, openFlowsNumber is the
\* number of flows whose ring is not nil and is never below 0; SystemStart
\* reports an error exactly if some flow is still open
C14_OpenFlows ==
    /\ phase # "exit" =>
         (openFlowsNumber = Cardinality(OpenFlows) /\ openFlowsNumber >= 0)
    /\ lastCall.op = "SystemStart" =>
         ((lastCall.err # "none") <=> (OpenFlows # {}))

C14_Witness ==
    /\ phase = "running"
    /\ openFlowsNumber = 0
    /\ Len(flows) >= 2
    /\ merged # {}
    /\ Len(Stages) >= 2

Consuming == {"SetSender", "SetWriter", "SetStopper", "SetSplitter", "SetMerger"}
Rebinding == {"SetHandler", "SetSeparator", "SetPartitioner"}

\* C15: a closed flow stays closed; a builder call given a closed flow, or
\* the same flow twice, reports 'flow used after it was closed' and ends
\* construction; SetSender, SetWriter, SetStopper, SetSplitter and SetMerger
\* close the flows they are given; SetHandler, SetSeparator and
\* SetPartitioner leave their flow open on a new ring
C15_FlowUse ==
    [][built' = built + 1 =>
         LET c == lastCall'
         IN /\ \A f \in DOMAIN flows : flows[f] = Nil => flows'[f] = Nil
            /\ ((\E k \in DOMAIN c.ins : flows[c.ins[k]] = Nil)
                  \/ (\E k, l \in DOMAIN c.ins : k # l /\ c.ins[k] = c.ins[l]))
                 => (c.err = "closed" /\ phase' = "exit")
            /\ (c.op \in Consuming /\ c.err = "none")
                 => \A k \in DOMAIN c.ins : flows'[c.ins[k]] = Nil
            /\ (c.op \in Rebinding /\ c.err = "none")
                 => /\ flows'[c.ins[1]] # Nil
                    /\ flows'[c.ins[1]] # flows[c.ins[1]]
                    /\ flows'[c.ins[1]] >= ringName]_vars

C15_Witness ==
    /\ lastCall.op = "SetMerger"
    /\ lastCall.err = "closed"
    /\ Len(lastCall.ins) = 2
    /\ lastCall.ins[1] = lastCall.ins[2]
    /\ flows[lastCall.ins[1]] = Nil
    /\ \E i \in DOMAIN Clonable : Clonable[i].Parameters.type = "handleParameters"

\* C16: a port's configuration changes only from inactive to auto, by
\* SetReceiver or SetSender, and SetReceiver or SetSender on a manual port
\* reports a construction error and registers nothing
C16_PortModes ==
    [][\A p \in DOMAIN createdPorts :
         /\ createdPorts'[p].config # createdPorts[p].config
              => /\ createdPorts[p].config = inactivePort
                 /\ createdPorts'[p].config = autoPort
                 /\ lastCall'.op \in {"SetReceiver", "SetSender"}
         /\ (built' = built + 1 /\ lastCall'.op \in {"SetReceiver", "SetSender"}
               /\ lastCall'.arg = <<p>> /\ createdPorts[p].config = manualPort)
              => /\ lastCall'.err # "none"
                 /\ phase' = "exit"
                 /\ UnClonable' = UnClonable]_vars

C16_Witness ==
    /\ lastCall.op = "SetSender"
    /\ lastCall.err = "manual"
    /\ phase = "exit"
    /\ createdPorts[lastCall.arg[1]].config = manualPort
    /\ flows[lastCall.ins[1]] # Nil

\* C17: a replica ends exactly when it receives -1 on its stop channel; any
\* other value it receives becomes its pause value and it keeps running; a
\* replica that has ended processes and reports nothing more
C17_StopOnly ==
    [][\A r \in Replicas :
         /\ (rpc[r] # "done" /\ rpc'[r] = "done")
              => (stopper[r] = <<-1>> /\ stopper'[r] = <<>>)
         /\ (stopper[r] # <<>> /\ stopper'[r] = <<>>)
              => /\ pause'[r] = Head(stopper[r])
                 /\ (Head(stopper[r]) # -1) => (rpc'[r] = rpc[r] /\ rpc'[r] # "done")
                 /\ (Head(stopper[r]) = -1) => rpc'[r] = "done"
         /\ rpc[r] = "done"
              => /\ rpc'[r] = "done"
                 /\ processed'[r] = processed[r]
                 /\ published'[r] = published[r]
                 /\ currentSpeed'[r] = currentSpeed[r]
                 /\ Len(report') > Len(report)
                      => \E q \in Replicas : rpc[q] = "report" /\ rpc'[q] = "select"]_vars

C17_Witness ==
    \E r \in Replicas :
        /\ rpc[r] = "done"
        /\ pause[r] = -1
        /\ processed[r] > 0
        /\ published[r] > 0

\* C18: a replica that has -1 waiting on its stop channel ends
C18_StopObserved ==
    \A r \in Replicas : (stopper[r] = <<-1>>) ~> (rpc[r] = "done")

\* C19: a replica waits nowhere but in its idle sleep, which it enters only
\* with a pause value that is not 0: a replica about to send on the report
\* channel can send
C19_NeverBlocked ==
    \A r \in Replicas :
        /\ rpc[r] = "report" => ENABLED Publish(r)
        /\ rpc[r] = "sleep" => pause[r] # 0

\* C20: what a replica has reported so far plus its current counter is the
\* number of packets it has processed
C20_ReportSum ==
    \A r \in Replicas : published[r] + currentSpeed[r] = processed[r]

C20_Witness ==
    \E r \in Replicas :
        /\ published[r] > 0
        /\ currentSpeed[r] > 0
        /\ report # <<>>
        /\ rpc[r] = "select"

\* the parameter type of the flow function a builder call registers
StageType(c) ==
    CASE c.op = "SetReceiver" -> {"receiveParameters"}
      [] c.op = "SetSender" -> {"sendParameters"}
      [] c.op = "SetPartitioner" -> {"partitionParameters"}
      [] c.op = "SetWriter" -> {"writeParameters"}
      [] c.op = "SetReader" -> {"readParameters"}
      [] c.op = "SetGenerator" -> {"generateParameters"}
      [] c.op = "SetHandler" -> {"handleParameters", "separateParameters"}
      [] c.op = "SetSeparator" -> {"separateParameters"}
      [] c.op = "SetSplitter" -> {"splitParameters"}
      [] OTHER -> {}

\* the builder calls that register an unclonable flow function
RegistersUnclonable(c) ==
    \/ c.op \in {"SetReceiver", "SetSender", "SetPartitioner", "SetWriter",
                  "SetReader"}
    \/ c.op = "SetGenerator" /\ c.arg[1] = 0

\* the builder calls that register a clonable flow function
RegistersClonable(c) ==
    \/ c.op \in {"SetHandler", "SetSeparator", "SetSplitter"}
    \/ c.op = "SetGenerator" /\ c.arg[1] > 0

\* C28: a builder call that returns registers exactly one flow function of
\* its kind: SetReceiver, SetSender, SetPartitioner, SetWriter, SetReader and
\* SetGenerator with targetSpeed 0 at the end of the unclonable list,
\* SetGenerator with targetSpeed > 0, SetHandler, SetSeparator and SetSplitter
\* at the end of the clonable list; SetMerger and SetStopper leave the
\* length of both lists as it was; no partitioner is in the clonable list
C28_Registration ==
    [][(built' = built + 1 /\ lastCall'.err = "none") =>
         LET c == lastCall'
             dU == Len(UnClonable') - Len(UnClonable)
             dC == Len(Clonable') - Len(Clonable)
         IN /\ RegistersUnclonable(c) =>
                 /\ dU = 1 /\ dC = 0
                 /\ UnClonable'[Len(UnClonable')].Parameters.type \in StageType(c)
                 /\ SubSeq(UnClonable', 1, Len(UnClonable)) = UnClonable
                 /\ Clonable' = Clonable
            /\ RegistersClonable(c) =>
                 /\ dU = 0 /\ dC = 1
                 /\ Clonable'[Len(Clonable')].Parameters.type \in StageType(c)
                 /\ SubSeq(Clonable', 1, Len(Clonable)) = Clonable
                 /\ UnClonable' = UnClonable
            /\ c.op \in {"SetMerger", "SetStopper"} => dU = 0 /\ dC = 0
            /\ \A i \in DOMAIN Clonable' :
                 Clonable'[i].Parameters.type # "partitionParameters"]_vars

C28_Witness ==
    /\ lastCall.op = "SetPartitioner"
    /\ lastCall.err = "none"
    /\ Len(Clonable) = 1
    /\ Clonable[1].Parameters.type = "generateParameters"
    /\ Len(UnClonable) = 1
    /\ UnClonable[1].Parameters.type = "partitionParameters"

\* C26: SetHandler given a function with a bool result registers a separator
\* that reads the flow's old ring, whose true output is a ring made by this
\* call and whose false output is the stop ring; the flow stays open and is
\* bound to the new ring, no other flow changes, and openFlowsNumber stays
C26_BoolHandler ==
    [][(built' = built + 1 /\ lastCall'.op = "SetHandler"
          /\ lastCall'.err = "none"
          /\ lastCall'.arg[1] \in {"boolScalar", "boolVector"}) =>
         LET In == lastCall'.ins[1]
             par == Clonable'[Len(Clonable')].Parameters
         IN /\ Len(Clonable') = Len(Clonable) + 1
            /\ par.type = "separateParameters"
            /\ par.vector = (lastCall'.arg[1] = "boolVector")
            /\ par.in = flows[In]
            /\ par.outTrue = flows'[In]
            /\ par.outFalse = StopRing
            /\ flows'[In] \notin {Nil, StopRing}
            /\ flows'[In] \notin GraphRings
            /\ \A f \in DOMAIN flows : f # In => flows'[f] = flows[f]
            /\ DOMAIN flows' = DOMAIN flows
            /\ openFlowsNumber' = openFlowsNumber]_vars

C26_Witness ==
    /\ lastCall.op = "SetHandler"
    /\ lastCall.err = "none"
    /\ lastCall.arg = <<"boolVector">>
    /\ Len(Clonable) = 1
    /\ Clonable[1].Parameters.type = "separateParameters"
    /\ Clonable[1].Parameters.outFalse = StopRing
    /\ flows[lastCall.ins[1]] = Clonable[1].Parameters.outTrue

\* C30 as stated: the clone threshold is burst size times ring size
\* multiplier times 4, divided by 5 and rounded down
C30_EightyPercent ==
    phase # "start" =>
        maxPacketsToClone = (config.burstSize * config.sizeMultiplier * 4) \div 5

\* C30 as amended: the clone threshold is the largest multiple of 4 that is
\* not above 80% of the ring capacity, which is 6552 for the defaults
C30_CloneThreshold ==
    phase # "start" =>
        LET capacity == config.burstSize * config.sizeMultiplier
        IN /\ maxPacketsToClone % 4 = 0
           /\ 5 * maxPacketsToClone <= 4 * capacity
           /\ 5 * (maxPacketsToClone + 4) > 4 * capacity
           /\ capacity = 8192 => maxPacketsToClone = 6552

C30_Witness ==
    /\ lastCall.op = "SystemInit"
    /\ lastCall.arg = <<0, 0>>
    /\ config = [sizeMultiplier |-> 256, burstSize |-> 32]
    /\ maxPacketsToClone = 6552

\* C29: the predicate of a generator is true exactly when the observed
\* speed is below the target speed; the predicate of a handler, separator
\* or splitter is true exactly when its input ring holds more than
\* maxPacketsToClone packets; an evaluation changes nothing but its record
C29_ClonePredicates ==
    [][lastCheck' # lastCheck =>
         /\ rkind = "generatePerf" =>
              (lastCheck'.result <=> lastCheck'.speed < gpTargetSpeed)
         /\ rkind \in {"handle", "separate", "split"} =>
              (lastCheck'.result <=> lastCheck'.count > maxPacketsToClone)
         /\ UNCHANGED <<runVars, buildVars, replVars, initVars,
                         gpTargetSpeed, fileVars, cloneVars, cksumVars>>]_vars

C29_Witness ==
    /\ rkind = "separate"
    /\ lastCheck.count = maxPacketsToClone + 1
    /\ lastCheck.result = TRUE

\* C21: at most one replica of a fast generator is inside the allocation
\* from the generator's mempool at any instant
C21_OneAllocator ==
    Cardinality({r \in DOMAIN rpc : rpc[r] = "alloc"}) <= 1

\* the number of places that hold handle h: the free list, the rings and
\* the burst arrays of the workers
Places(h) ==
    pool[h] + InRings(h, 2 + NumOuts)
      + Cardinality({t \in DOMAIN pc : Occurrences(InFlight(t), h) > 0})

\* C22: in a generator-to-writer pipeline every buffer the writer has
\* dequeued and written is back in the mempool or on its way there through
\* the stop ring, so every buffer is always in the free list, in a ring or
\* in the generator's burst array
C22_WriterReleases ==
    "generator" \in DOMAIN pc => \A h \in Handles : Places(h) = 1

\* C23: the writer's file is empty until the global header is written; from
\* then on it is the global header, once and first, followed for every
\* packet dequeued, in dequeue order, by a record header whose InclLen and
\* OrigLen are the packet's length and then by the packet's bytes
C23_PcapFile ==
    /\ wpc = "start" => (outFile = <<>> /\ written = <<>>)
    /\ wpc = "loop" =>
         /\ Len(outFile) = 1 + 2 * Len(written)
         /\ outFile[1].type = "pcapGlobHdr"
         /\ \A i \in 2 .. Len(outFile) : outFile[i].type # "pcapGlobHdr"
         /\ \A k \in DOMAIN written :
              /\ outFile[2 * k].type = "pcapRecHdr"
              /\ outFile[2 * k].InclLen = Len(written[k])
              /\ outFile[2 * k].OrigLen = Len(written[k])
              /\ outFile[2 * k + 1] = [type |-> "bytes", data |-> written[k]]

C23_Witness ==
    /\ Len(written) >= 3
    /\ Len(written[1]) # Len(written[2])
    /\ Len(outFile) = 7
    /\ rings[StopRing] # <<>>

\* the records of the reader's file in file order, k times over
Replayed(k) ==
    [i \in 1 .. (k * Len(inFile)) |-> inFile[((i - 1) % Len(inFile)) + 1]]

\* C24: for a file of P >= 1 records and repcount = k >= 1 the reader passes
\* to safeEnqueue the file's records in file order, k times over and no
\* more, and then leaves its loop; when it has left, every buffer it
\* allocated has been passed to safeEnqueue
C24_ReadReplay ==
    ("reader" \in DOMAIN pc /\ Len(inFile) >= 1 /\ rpRepcount >= 1) =>
        /\ Len(readHanded) <= rpRepcount * Len(inFile)
        /\ readHanded = SubSeq(Replayed(rpRepcount), 1, Len(readHanded))
        /\ pc["reader"] = "done" =>
             /\ readHanded = Replayed(rpRepcount)
             /\ generated = Len(readHanded)

\* C25: for repcount >= 0 the reader ends no more than repcount passes and
\* passes on no more than repcount times the file's records, none for
\* repcount = 0
C25_ReplayCount ==
    ("reader" \in DOMAIN pc /\ rpRepcount >= 0) =>
        /\ count <= rpRepcount
        /\ Len(readHanded) <= rpRepcount * Len(inFile)

\* the number the generator wrote into the packet in buffer h
Tag(h) == mbuf[h][1]

\* C27: the packets on the output ring of a handler are in the order in
\* which they were generated, that is in the order of its input ring, also
\* when two replicas of the handler run
C27_OrderKept ==
    \A i, j \in DOMAIN rings[OutRing(0)] :
        i < j => Tag(rings[OutRing(0)][i]) < Tag(rings[OutRing(0)][j])

IsPowerOfTwo(n) == \E k \in 0 .. 14 : n = 2 ^ k

\* C31: the stop ring is created with capacity burstSize * sizeMultiplier,
\* and after every SystemInit that capacity is a power of two
C31_RingCapacity ==
    phase # "start" =>
        /\ stopRingSize = config.burstSize * config.sizeMultiplier
        /\ IsPowerOfTwo(stopRingSize)

\* C32: in every record header the writer emits, TsSec is the whole seconds
\* of the time of the write and TsUsec the microseconds within that second,
\* a number in 0 .. 999999
C32_Timestamp ==
    \A k \in DOMAIN writtenAt :
        /\ outFile[2 * k].TsSec = writtenAt[k] \div 1000000000
        /\ outFile[2 * k].TsUsec = (writtenAt[k] % 1000000000) \div 1000
        /\ outFile[2 * k].TsUsec \in 0 .. 999999

\* C33: a replica of handle, separate or split goes to sleep only in an
\* iteration that dequeued nothing, handed nothing on and left the rate
\* counter as it was, and only with a pause value that is not 0; a replica
\* that sleeps has a pause value that is not 0
C33_IdleSleep ==
    [][\A r \in Replicas :
          (rkind # "generatePerf" /\ rpc[r] # "sleep" /\ rpc'[r] = "sleep") =>
              /\ pause[r] # 0
              /\ processed'[r] = processed[r]
              /\ currentSpeed'[r] = currentSpeed[r]]_vars

C33_Witness ==
    \E r \in Replicas :
        /\ rkind \in {"handle", "separate", "split"}
        /\ rpc[r] = "sleep"
        /\ pause[r] # 0
        /\ processed[r] > 0

\* the packets the replicas 1 .. n have allocated: burstSize for every
\* iteration that has ended and for the one a replica is in
RECURSIVE Allocated(_)
Allocated(n) ==
    IF n = 0 THEN 0
    ELSE processed[n] + (IF rpc[n] = "alloc" THEN burstSize ELSE 0)
           + Allocated(n - 1)

\* C34: a fast generator makes packets in whole bursts: the number of
\* packets a replica has generated is a multiple of burstSize, and
\* its rate counter has grown by burstSize for every iteration that has
\* ended, whatever number of handles the output ring accepted
C34_WholeBursts ==
    /\ generated % burstSize = 0
    /\ generated = Allocated(NumReplicas)
    /\ \A r \in Replicas :
          /\ processed[r] % burstSize = 0
          /\ currentSpeed[r] + published[r] = processed[r]

C34_Witness ==
    \E r \in Replicas :
        /\ rpc[r] = "select"
        /\ generated = 2 * burstSize
        /\ acc["generator"] \notin {0, burstSize, 2 * burstSize}
        /\ currentSpeed[r] + published[r] = 2 * burstSize

\* the fields of a flow function's parameters that hold one output ring
OutFields == {"out", "outFirst", "outSecond", "outTrue", "outFalse"}

\* parameters q differ from parameters p only in output rings that were in
\* froms and are now ring to
OnlyRedirected(p, q, froms, to) ==
    /\ DOMAIN q = DOMAIN p
    /\ \A f \in DOMAIN p \ (OutFields \cup {"outs"}) : q[f] = p[f]
    /\ \A f \in DOMAIN p \cap OutFields :
          q[f] # p[f] => (p[f] \in froms /\ q[f] = to)
    /\ "outs" \in DOMAIN p =>
          /\ DOMAIN q.outs = DOMAIN p.outs
          /\ \A j \in DOMAIN p.outs :
                q.outs[j] # p.outs[j] => (p.outs[j] \in froms /\ q.outs[j] = to)
    /\ p.type \in {"sendParameters", "writeParameters"} => q = p

\* C35: a SetMerger or SetStopper, whose only change to the registered flow
\* functions is through merge(from, to), changes only output rings that
\* are a from ring and sets them to the to ring; no input ring, no other
\* output ring, no sender and no writer is changed, and no flow function
\* is added or removed
C35_MergeFrame ==
    [][(built' # built /\ lastCall'.op \in {"SetMerger", "SetStopper"}) =>
          LET froms == merged' \ merged
              to == IF lastCall'.op = "SetMerger" THEN ringName ELSE StopRing
          IN /\ Len(UnClonable') = Len(UnClonable)
             /\ Len(Clonable') = Len(Clonable)
             /\ \A i \in DOMAIN UnClonable :
                   /\ [UnClonable'[i] EXCEPT !.Parameters = 0]
                        = [UnClonable[i] EXCEPT !.Parameters = 0]
                   /\ OnlyRedirected(UnClonable[i].Parameters,
                                     UnClonable'[i].Parameters, froms, to)
             /\ \A i \in DOMAIN Clonable :
                   /\ [Clonable'[i] EXCEPT !.Parameters = 0]
                        = [Clonable[i] EXCEPT !.Parameters = 0]
                   /\ OnlyRedirected(Clonable[i].Parameters,
                                     Clonable'[i].Parameters, froms, to)]_vars

\* a SetStopper has redirected one flow function to the stop ring and left
\* a generator that writes to another ring as it was
C35_Witness ==
    /\ lastCall.op = "SetStopper"
    /\ lastCall.err = "none"
    /\ \E i \in DOMAIN Stages : StopRing \in OutRings(Stages[i].Parameters)
    /\ \E i \in DOMAIN Stages :
          /\ Stages[i].Parameters.type = "generateParameters"
          /\ Stages[i].Parameters.out \notin merged \cup {StopRing}

\* C36: a replica of handle, separate or split that has taken a stop
\* signal or a tick holds no handle in its burst arrays: every handle it
\* dequeued has been given to a ring or freed by safeEnqueue, so a replica
\* that has ended has lost no packet
C36_NothingHeld ==
    \A r \in Replicas :
        rpc[r] \in {"done", "report"} =>
            /\ InFlight("stage") = <<>>
            /\ deq["stage"] = acc["stage"] + shed["stage"]
            /\ \A h \in Handles :
                  pool[h] + InRings(h, 2 + NumOuts)
                    + Occurrences(InFlight("generator"), h) = 1

C36_Witness ==
    \E r \in Replicas :
        /\ rpc[r] = "done"
        /\ kind = "splitter"
        /\ deq["stage"] >= 3
        /\ shed["stage"] > 0
        /\ acc["stage"] > 0

\* C37: while no builder call has reported an error, every ring is the
\* input ring of at most one flow function, and the stop ring of none
C37_OneConsumer ==
    phase # "exit" =>
        /\ \A r \in 1 .. ringName : Cardinality(Consumers(r)) <= 1
        /\ Consumers(StopRing) = {}

\* two consuming calls on one flow: a handler and then a writer, which
\* reads the ring the handler moved the flow to
C37_Witness ==
    /\ phase = "construct"
    /\ lastCall.op = "SetWriter"
    /\ lastCall.err = "none"
    /\ \E j \in DOMAIN Clonable, i \in DOMAIN UnClonable :
          /\ Clonable[j].Parameters.type = "handleParameters"
          /\ UnClonable[i].Parameters.type = "writeParameters"
          /\ UnClonable[i].Parameters.in = Clonable[j].Parameters.out
          /\ Cardinality(Consumers(Clonable[j].Parameters.in)) = 1
          /\ Cardinality(Consumers(UnClonable[i].Parameters.in)) = 1

\* the receivers and the senders registered on port p, in registration order
Receivers(p) ==
    LET OnPort(ff) == /\ ff.Parameters.type = "receiveParameters"
                      /\ ff.Parameters.port = p
    IN SelectSeq(UnClonable, OnPort)
Senders(p) ==
    LET OnPort(ff) == /\ ff.Parameters.type = "sendParameters"
                      /\ ff.Parameters.port = p
    IN SelectSeq(UnClonable, OnPort)

\* C38: on every port the builder configures, the k-th receiver has rx
\* queue k-1 and the k-th sender tx queue k-1, rxQueuesNumber is the number
\* of receivers and txQueuesNumber the number of senders on the port, and
\* the port is inactive exactly while it has neither
C38_PortQueues ==
    \A p \in DOMAIN createdPorts :
        createdPorts[p].config # manualPort =>
            /\ \A k \in DOMAIN Receivers(p) :
                  Receivers(p)[k].Parameters.queue = k - 1
            /\ \A k \in DOMAIN Senders(p) :
                  Senders(p)[k].Parameters.queue = k - 1
            /\ createdPorts[p].rxQueuesNumber = Len(Receivers(p))
            /\ createdPorts[p].txQueuesNumber = Len(Senders(p))
            /\ createdPorts[p].config # inactivePort <=>
                  createdPorts[p].rxQueuesNumber
                    + createdPorts[p].txQueuesNumber >= 1

C38_Witness ==
    \E p \in DOMAIN createdPorts :
        /\ createdPorts[p].config = autoPort
        /\ createdPorts[p].rxQueuesNumber = 2
        /\ createdPorts[p].txQueuesNumber = 1
        /\ Receivers(p)[2].Parameters.queue = 1
        /\ Senders(p)[1].Parameters.queue = 0

\* the value of a uint32 modulo 0xffff, computed on its halves
Mod65535(s) == (((s.hi % 65535) * (65536 % 65535)) + s.lo) % 65535

\* C39: reduceChecksum returns for every argument; the value r it returns
\* is at most 0xffff, is congruent to the argument modulo 0xffff, and is 0
\* only when the argument is 0
C39_ReduceChecksum ==
    /\ <>(cpc = "return")
    /\ [](cpc = "return" =>
            /\ result \in 0 .. 65535
            /\ result % 65535 = Mod65535(argument)
            /\ result = 0 => argument = Uint32(0, 0))

C39_Witness ==
    /\ cpc = "return"
    /\ argument = Uint32(65535, 65535)
    /\ folds = 2
    /\ result = 65535

====
